---- MODULE Spec2Model ----
(***************************************************************************)
(* A model of the listing ingestion pipeline of price-predictor-app:       *)
(*   - the crawl loop of NekretnineScraper (scrapers/nekretnine_scraper.py)*)
(*     with its duplicate filter and page-by-page save;                    *)
(*   - the sync orchestrator SupabaseSyncService                           *)
(*     (sync_service_supabase.py): partition, insert, update, price        *)
(*     history and expiry.                                                 *)
(* Timestamps are whole days; an optional value (Python None) is the empty *)
(* sequence and a present value v is <<v>>.                                *)
(***************************************************************************)
EXTENDS Integers, Sequences, FiniteSets, TLC

\* ------------------------------------------------------------------------
\* Bounds of the model
\* ------------------------------------------------------------------------
MaxPages == 2
MaxLinks == 2
MaxRuns == 1
MaxSyncs == 1
MaxBatch == 2
MaxAllRuns == 2
MaxWords == 2
MaxRows == 2
MaxCleanRuns == 2
MaxMinutes == 125

\* Program constants (in days)
StaleDays == 1
ExpiryDays == 7

\* Program constants of the scheduler (in minutes)
MinutesPerHour == 60
SleepMinutes == 1

Urls == {"u1", "u2"}

\* The days at which the service can run: with StaleDays and ExpiryDays
\* they give ages on both sides of each threshold (1 and 2 days, 6, 7 and 8
\* days)
Days == {0, 1, 2, ExpiryDays + 1}

\* Optional values
None == << >>
Some(v) == <<v>>

\* What a detail page of OLX can yield (external_id, price_numeric, title)
ScrapedListings ==
    {[external_id |-> "a", price_numeric |-> p, title |-> "t1"] :
        p \in {None, Some(100), Some(200)}}
    \cup {[external_id |-> "a", price_numeric |-> Some(100), title |-> "t2"]}

\* ------------------------------------------------------------------------
\* State
\* ------------------------------------------------------------------------
VARIABLES
    \* NekretnineScraper and the table it saves to
    supabase,             \* TRUE iff the scraper was given a Supabase client
    existing_urls,        \* self.existing_urls
    listings_nekretnine,  \* rows of table listings_nekretnine, in insert order
    crawl_pc,             \* position inside scrape_listings
    page,                 \* loop variable of scrape_listings
    new_urls,             \* the URLs of the current page still to be parsed
    page_listings,        \* listings parsed on the current page
    all_listings,         \* listings parsed in this run
    runs,                 \* number of scrape_listings calls started
    \* history of the current run (not program state)
    parse_calls,          \* URL -> calls of parse_detail_page in this run
    insert_calls,         \* URL -> rows handed to a successful insert in this run
    seen_dup,             \* URLs discovered in this run while already in existing_urls
    paced,                \* a random delay has run since the last page load
    search,               \* what the last search page gave
    total_found,          \* scrape_listings: URLs found on the pages read
    total_duplicates,     \* scrape_listings: URLs filtered out as duplicates
    total_saved,          \* scrape_listings: rows the saves reported
    returned,             \* what scrape_listings returned last
    \* SupabaseSyncService, its tables and the clock
    now,                  \* datetime.now(), in days
    listings_olx,         \* rows of table listings_olx; the id of a row is its index
    price_history,        \* rows of table price_history, in insert order
    sync_pc,              \* position inside sync_all_sources
    new_listings,         \* _sync_source: listings to insert
    updated_listings,     \* _sync_source: listings still to update, with their row id
    old_price,            \* _update_listings: the price read before the write
    updated_count,        \* _update_listings: the count it returns
    expired_count,        \* what _mark_expired_listings returned last
    syncs,                \* number of sync_all_sources calls started
    store_failed,         \* history: a store call of the last step raised
    scraped,              \* history: the batch that the last step partitioned
    scraped_ids,          \* history: the external_ids of the batch of this run
    \* the field extractor at work on one detail document
    ext_pc,               \* position: start, store, stored, geocoded, done
    doc,                  \* the detail document
    gmaps,                \* TRUE iff the scraper has a geocoder (self.gmaps)
    coords,               \* what the coordinate resolver or the geocoder returned
    parsed,               \* what parse_detail_page returned
    stored_coords,        \* the coordinates written to a table
    \* OLXScraper
    olx_pc,               \* position inside scrape_listings
    olx_page,             \* loop variable of scrape_listings
    olx_links,            \* the links of the current page still to be parsed
    olx_all_listings,     \* len(all_listings)
    olx_driver,           \* self.driver: "none" or "open"
    olx_runs,             \* number of scrape_listings calls started
    \* history of the current run of OLXScraper
    olx_opened,           \* browser sessions opened
    olx_quit,             \* calls of driver.quit()
    olx_paced,            \* a random delay has run since the last page load
    olx_search,           \* what the last search page gave
    olx_exit,             \* how scrape_listings ended: return or raise
    \* sync_all_sources seen from its loop over the sources
    scrapers,             \* self.scrapers: the configured sources, in dict order
    all_pc,               \* position inside sync_all_sources
    source_idx,           \* the loop position in self.scrapers
    total_stats,          \* the dictionary sync_all_sources builds and returns
    all_runs,             \* number of sync_all_sources calls started
    \* history of the current run of sync_all_sources
    attempted,            \* the sources _sync_source was called for
    failed_sources,       \* the sources whose _sync_source raised
    expiry_runs,          \* calls of _mark_expired_listings
    \* the deal score of one row of the listings frame (app/main.py)
    score_pc,             \* position: start, done
    frame_row,            \* the row: price_numeric, predicted_price, price_difference
    score,                \* what deal_score returned for it
    \* the municipality normalizer at work on one location string
    muni_pc,              \* position: start, mapped, remapped, live
    raw,                  \* the raw string, or None
    description,          \* the description of the listing it comes from
    mapped,               \* what map_municipality returned for raw
    remapped,             \* what map_municipality returned for that result
    municipality,         \* the municipality of the record live ingestion built
    \* clean_table of scripts/clean_supabase_municipalities.py
    clean_pc,             \* position inside clean_table: idle, loop, done, failed
    table_rows,           \* the rows of the table it is run on: id, municipality, is_active
    fetched_rows,         \* rows: the fetched rows still to be looked at
    apply_changes,        \* the argument apply_changes
    updated,              \* the counter updated
    dropped,              \* the counter dropped
    total,                \* total = len(rows)
    clean_runs,           \* number of clean_table calls started
    \* history of clean_table
    table_at_start,       \* the table when the current run fetched it
    store_writes,         \* update and delete calls of the current run
    deactivated,          \* ids set inactive by the current run
    deleted,              \* ids deleted by the current run
    cleaned,              \* a run with apply_changes has completed
    cleaned_before,       \* the value of cleaned when the current run started
    \* SyncScheduler
    sched_pc,             \* "idle", "loop", "stopped" (KeyboardInterrupt), "crashed"
    clock,                \* time.time(), in minutes
    sched_start,          \* the clock when run_forever was entered
    full_sync_interval,
    incremental_sync_interval,
    last_full_sync,
    last_incremental_sync,
    current_time,         \* the local of run_forever in the latest iteration
    ticks,                \* iterations of the loop begun
    started,              \* the syncs started by the latest iteration, in order
    full_started_at,      \* when the latest full sync started, if any
    sync_started_at,      \* when the latest sync of either kind started, if any
    full_syncs,           \* full syncs started
    incremental_syncs     \* incremental syncs started

crawlVars == <<supabase, existing_urls, listings_nekretnine, crawl_pc, page,
               new_urls, page_listings, all_listings, runs,
               parse_calls, insert_calls, seen_dup, paced, search,
               total_found, total_duplicates, total_saved, returned>>

syncVars == <<now, listings_olx, price_history, sync_pc, new_listings,
              updated_listings, old_price, updated_count, expired_count, syncs,
              store_failed, scraped, scraped_ids>>

extractVars == <<ext_pc, doc, gmaps, coords, parsed, stored_coords>>

olxVars == <<olx_pc, olx_page, olx_links, olx_all_listings, olx_driver,
             olx_runs, olx_opened, olx_quit, olx_paced, olx_search, olx_exit>>

allVars == <<scrapers, all_pc, source_idx, total_stats, all_runs, attempted,
             failed_sources, expiry_runs>>

scoreVars == <<score_pc, frame_row, score>>

muniVars == <<muni_pc, raw, description, mapped, remapped, municipality>>

cleanVars == <<clean_pc, table_rows, fetched_rows, apply_changes, updated, dropped,
               total, clean_runs, table_at_start, store_writes, deactivated,
               deleted, cleaned, cleaned_before>>

schedVars == <<sched_pc, clock, sched_start, full_sync_interval,
               incremental_sync_interval, last_full_sync, last_incremental_sync,
               current_time, ticks, started, full_started_at, sync_started_at,
               full_syncs, incremental_syncs>>

restVars == <<allVars, scoreVars, muniVars, cleanVars, schedVars>>

vars == <<crawlVars, syncVars, extractVars, olxVars, restVars>>

\* ------------------------------------------------------------------------
\* Helpers
\* ------------------------------------------------------------------------
Range(s) == {s[i] : i \in 1..Len(s)}

SeqsUpTo(S, n) == UNION {[1..k -> S] : k \in 0..n}

Count(s, x) == Cardinality({i \in 1..Len(s) : s[i] = x})

NoCalls == [u \in Urls |-> 0]

\* Python truthiness of an optional number: None and 0 are false
Truthy(x) == x # None /\ x[1] # 0

\* ------------------------------------------------------------------------
\* Field extractor and coordinate resolver of NekretnineScraper
\* ------------------------------------------------------------------------
\* Coordinates are in millionths of a degree (the code rounds to 6 decimals);
\* a coordinate pair is <<latitude, longitude>>, each one optional.
NoCoords == <<None, None>>

Coords(lat, lon) == <<Some(lat), Some(lon)>>

\* the bounding box of geocode_address
InBox(lat, lon) ==
    /\ 42000000 <= lat /\ lat <= 46000000
    /\ 15000000 <= lon /\ lon <= 20000000

\* The tile images of the model, as zoom/x/y of the first tile whose src
\* matches: the tile of the code's comment, a tile further north, the tile
\* at the origin, and a zoom too large for 2.0 ** zoom
Tiles ==
    {[zoom |-> 16, tile_x |-> 36121, tile_y |-> 23865],
     [zoom |-> 16, tile_x |-> 36121, tile_y |-> 22226],
     [zoom |-> 1, tile_x |-> 1, tile_y |-> 1],
     [zoom |-> 1024, tile_x |-> 0, tile_y |-> 0]}

\* 2.0 ** zoom raises OverflowError from zoom = 1024 on
TileMathRaises(tile) == tile.zoom >= 1024

\* round(tile_x / n * 360.0 - 180.0, 6) with n = 2 ** zoom, rounded to the
\* nearest millionth
TileLon(tile) ==
    LET n == 2 ^ tile.zoom
        q == 360000000 \div n
        r == 360000000 % n
    IN tile.tile_x * q + ((2 * tile.tile_x * r + n) \div (2 * n)) - 180000000

\* round(degrees(atan(sinh(pi * (1 - 2 * tile_y / n)))), 6), tabulated for
\* the tiles of the model
TileLat(tile) ==
    CASE tile.zoom = 16 /\ tile.tile_y = 23865 -> 43862258
      [] tile.zoom = 16 /\ tile.tile_y = 22226 -> 50000678
      [] tile.zoom = 1 /\ tile.tile_y = 1 -> 0

\* Method 1 of extract_coordinates_from_leaflet, for a document with a
\* marker and a tile
TileCoords(tile) == Coords(TileLat(tile), TileLon(tile))

\* the pairs a setView or L.marker call of a script can hold: inside the
\* box, north of it, and on the zero meridian
ScriptPoints ==
    {Coords(43850000, 18410000), Coords(50000000, 18000000),
     Coords(43850000, 0)}

\* what the geocoder can do with an address: raise, find nothing, or return
\* a point inside or outside the box
GeocodeResults ==
    {[kind |-> "raise"], [kind |-> "empty"],
     [kind |-> "point", lat |-> 43860000, lng |-> 18420000],
     [kind |-> "point", lat |-> 48200000, lng |-> 16370000]}

\* A detail document: whether it could be fetched, the fields the selectors
\* find (None: no match), whether there is a marker with a translate3d
\* position, the first tile image with a zoom/x/y index, and the pair of the
\* first setView or L.marker call
Docs ==
    [fetched : BOOLEAN,
     title : {None, Some("t1")},
     price_numeric : {None, Some(100)},
     address : {None, Some("addr")},
     marker : BOOLEAN,
     tile : {None} \cup {Some(t) : t \in Tiles},
     script : {None} \cup {Some(p) : p \in ScriptPoints}]

\* Method 1 of extract_coordinates_from_leaflet finds a marker position and a
\* tile index
HasTile(d) == d.marker /\ d.tile # None

ExtractCoordinatesScriptFirst(d) ==
    IF d.script # None
    THEN d.script[1]
    ELSE IF HasTile(d) /\ ~TileMathRaises(d.tile[1])
         THEN TileCoords(d.tile[1])
         ELSE NoCoords

\* extract_coordinates_from_leaflet: the tile math, then the scripts; an
\* exception of the tile math is caught and gives (None, None)
ExtractCoordinatesFromLeaflet(d) ==
    IF HasTile(d)
    THEN IF TileMathRaises(d.tile[1]) THEN NoCoords ELSE TileCoords(d.tile[1])
    ELSE IF d.script # None THEN d.script[1] ELSE NoCoords

\* geocode_address
GeocodeAddress(configured, result) ==
    IF ~configured THEN NoCoords
    ELSE IF result.kind = "point" /\ InBox(result.lat, result.lng)
         THEN Coords(result.lat, result.lng)
         ELSE NoCoords

\* the condition of the geocoding fallback in parse_detail_page
NeedsFallback(d, configured, latlon) ==
    /\ latlon[1] = None \/ latlon[1] = Some(0)
    /\ d.address # None
    /\ configured

\* The body of the try block of parse_detail_page. In the fallback the
\* argument 'municipality or "Sarajevo"' reads a local that is assigned only
\* later: it raises before geocode_address is called. The log line
\* title[:40] raises when title is None.
ParseBody(d, configured) ==
    LET latlon == ExtractCoordinatesFromLeaflet(d) IN
    IF NeedsFallback(d, configured, latlon) \/ d.title = None
    THEN [raised |-> TRUE]
    ELSE [raised |-> FALSE,
          details |-> [title |-> d.title,
                       price_numeric |-> d.price_numeric,
                       address |-> d.address,
                       latitude |-> latlon[1],
                       longitude |-> latlon[2]]]

Uncaught(outcome) ==
    IF outcome.raised THEN [kind |-> "raised"]
    ELSE [kind |-> "listing", details |-> outcome.details]

\* except Exception of parse_detail_page: return None
Caught(outcome) ==
    IF outcome.raised THEN [kind |-> "skip"]
    ELSE [kind |-> "listing", details |-> outcome.details]

\* parse_detail_page: a listing, or None ("skip")
ParseDetailPage(d, configured) ==
    IF ~d.fetched THEN [kind |-> "skip"] ELSE Caught(ParseBody(d, configured))

\* what parse_detail_page can do, over all documents
ParseKinds == {ParseDetailPage(d, g).kind : d \in Docs, g \in BOOLEAN}

\* ------------------------------------------------------------------------
\* NekretnineScraper
\* ------------------------------------------------------------------------
\* the row _save_listings_to_database builds; it sends no scraped_at, which
\* stays null
NekretnineRow(listing) ==
    [url |-> listing.url, is_active |-> TRUE, deal_score |-> 0,
     scraped_at |-> None]

\* _load_existing_urls: the URLs of the table, or the empty set when the
\* query raises.
LoadExistingUrls(rows, ok) ==
    IF ok THEN {rows[i].url : i \in 1..Len(rows)} ELSE {}

IsDuplicateNever(url) == FALSE

\* _is_duplicate
IsDuplicate(url) == url \in existing_urls

\* the list comprehension of scrape_listings that keeps the non-duplicates
NewUrls(urls) == SelectSeq(urls, LAMBDA u : ~IsDuplicate(u))

CacheNotUpdated(to_save) == existing_urls

\* the cache update that follows the insert in _save_listings_to_database
AddSavedUrls(to_save) ==
    existing_urls \cup {to_save[i].url : i \in 1..Len(to_save)}

\* no call of scrape_listings has returned yet
NoResult == [pending |-> TRUE]

\* the dictionary scrape_listings returns when it cannot create its driver
DriverFailedResult == [success |-> FALSE, error |-> "Driver creation failed"]

\* the dictionary scrape_listings returns after its loop
SuccessResult(listings, found, duplicates, saved) ==
    [success |-> TRUE,
     new_count |-> Len(listings),
     total_found |-> found,
     duplicate_count |-> duplicates,
     saved_count |-> saved]

\* the dictionary the except clause of scrape_listings returns
ErrorResult(listings, saved) ==
    [success |-> FALSE,
     error |-> "exception",
     new_count |-> Len(listings),
     saved_count |-> saved]

\* the value returned after a step that ends at position pc
ResultAt(pc, listings, found, duplicates, saved) ==
    IF pc = "done" THEN SuccessResult(listings, found, duplicates, saved)
                   ELSE NoResult

CrawlInit ==
    /\ supabase \in BOOLEAN
    /\ listings_nekretnine \in {<< >>, <<NekretnineRow([url |-> "u1"])>>}
    /\ \E ok \in BOOLEAN :
          existing_urls = IF supabase
                             THEN LoadExistingUrls(listings_nekretnine, ok)
                             ELSE {}
    /\ crawl_pc = "idle"
    /\ page = 0
    /\ new_urls = << >>
    /\ page_listings = << >>
    /\ all_listings = << >>
    /\ runs = 0
    /\ parse_calls = NoCalls
    /\ insert_calls = NoCalls
    /\ seen_dup = {}
    /\ paced = TRUE
    /\ search = "none"
    /\ total_found = 0
    /\ total_duplicates = 0
    /\ total_saved = 0
    /\ returned = NoResult

\* scrape_listings up to the loop: create the driver, or return when that
\* fails. A behaviour follows one scraper: this one starts only when
\* OLXScraper has not run.
StartCrawl ==
    /\ crawl_pc \in {"idle", "done"}
    /\ runs < MaxRuns
    /\ olx_runs = 0
    /\ runs' = runs + 1
    /\ \E driver_ok \in BOOLEAN :
          /\ crawl_pc' = IF driver_ok THEN "page" ELSE "done"
          /\ returned' = IF driver_ok THEN NoResult ELSE DriverFailedResult
    /\ total_found' = 0
    /\ total_duplicates' = 0
    /\ total_saved' = 0
    /\ page' = 1
    /\ new_urls' = << >>
    /\ page_listings' = << >>
    /\ all_listings' = << >>
    /\ parse_calls' = NoCalls
    /\ insert_calls' = NoCalls
    /\ seen_dup' = {}
    /\ paced' = TRUE
    /\ search' = "none"
    /\ UNCHANGED <<syncVars, extractVars, olxVars, restVars>>
    /\ UNCHANGED <<supabase, existing_urls, listings_nekretnine>>

NextPagePcUnbounded == "page"

\* the end of one loop iteration: the next page, or the end of the loop and
\* cleanup()
NextPagePc == IF page < MaxPages THEN "page" ELSE "done"

\* one iteration of the page loop up to the detail loop: scrape_page_listings
\* (it returns the empty list when the fetch or the parse of the search page
\* fails) and the duplicate filter. A page of duplicates is followed by a
\* random delay, a page with new URLs is not.
ScrapePage ==
    /\ crawl_pc = "page"
    /\ \E failed \in BOOLEAN :
       \E urls \in IF failed THEN {<< >>} ELSE SeqsUpTo(Urls, MaxLinks) :
          /\ search' = IF failed THEN "failed"
                        ELSE IF urls = << >> THEN "empty" ELSE "links"
          /\ IF urls = << >>
             THEN /\ crawl_pc' = "done"
                  /\ paced' = FALSE
                  /\ UNCHANGED <<page, new_urls, seen_dup, total_found,
                                 total_duplicates>>
             ELSE /\ seen_dup' = seen_dup \cup (Range(urls) \cap existing_urls)
                  /\ total_found' = total_found + Len(urls)
                  /\ total_duplicates' =
                        total_duplicates + Len(urls) - Len(NewUrls(urls))
                  /\ IF NewUrls(urls) = << >>
                     THEN /\ crawl_pc' = NextPagePc
                          /\ page' = page + 1
                          /\ new_urls' = << >>
                          /\ paced' = TRUE
                     ELSE /\ crawl_pc' = "detail"
                          /\ new_urls' = NewUrls(urls)
                          /\ page' = page
                          /\ paced' = FALSE
    /\ page_listings' = << >>
    /\ returned' = ResultAt(crawl_pc', all_listings, total_found',
                          total_duplicates', total_saved)
    /\ UNCHANGED <<syncVars, extractVars, olxVars, restVars>>
    /\ UNCHANGED <<supabase, existing_urls, listings_nekretnine, all_listings,
                   runs, parse_calls, insert_calls, total_saved>>

\* one iteration of the detail loop: parse_detail_page returns a listing or
\* None, and the random delay follows. An exception out of
\* parse_detail_page would leave the loops through the except clause of
\* scrape_listings.
ParseDetail ==
    /\ crawl_pc = "detail"
    /\ new_urls # << >>
    /\ LET url == Head(new_urls) IN
          /\ parse_calls' = [parse_calls EXCEPT ![url] = @ + 1]
          /\ \E kind \in ParseKinds :
                /\ page_listings' = IF kind = "listing"
                                       THEN Append(page_listings, [url |-> url])
                                       ELSE page_listings
                /\ IF kind = "raised"
                   THEN /\ new_urls' = << >>
                        /\ crawl_pc' = "done"
                        /\ paced' = FALSE
                        /\ returned' = ErrorResult(all_listings, total_saved)
                   ELSE /\ new_urls' = Tail(new_urls)
                        /\ crawl_pc' = IF Tail(new_urls) = << >> THEN "save"
                                                                 ELSE "detail"
                        /\ paced' = TRUE
                        /\ UNCHANGED returned
    /\ UNCHANGED <<syncVars, extractVars, olxVars, restVars>>
    /\ UNCHANGED <<supabase, existing_urls, listings_nekretnine, page,
                   all_listings, runs, insert_calls, seen_dup, search,
                   total_found, total_duplicates, total_saved>>

\* the rest of the iteration: extend all_listings, save the page with
\* _save_listings_to_database (insert_ok: the insert does not raise), and
\* the random delay before the next search page
SavePage ==
    /\ crawl_pc = "save"
    /\ all_listings' = all_listings \o page_listings
    /\ LET to_save == SelectSeq(page_listings, LAMBDA l : ~IsDuplicate(l.url)) IN
          \E insert_ok \in BOOLEAN :
             IF supabase /\ page_listings # << >> /\ to_save # << >> /\ insert_ok
             THEN /\ listings_nekretnine' = listings_nekretnine \o
                         [i \in 1..Len(to_save) |-> NekretnineRow(to_save[i])]
                  /\ existing_urls' = AddSavedUrls(to_save)
                  /\ insert_calls' = [u \in Urls |->
                         insert_calls[u] + Count(to_save, [url |-> u])]
                  /\ total_saved' = total_saved + Len(to_save)
             ELSE UNCHANGED <<listings_nekretnine, existing_urls, insert_calls,
                              total_saved>>
    /\ crawl_pc' = NextPagePc
    /\ returned' = ResultAt(crawl_pc', all_listings', total_found,
                          total_duplicates, total_saved')
    /\ page' = page + 1
    /\ page_listings' = << >>
    /\ paced' = TRUE
    /\ UNCHANGED <<syncVars, extractVars, olxVars, restVars>>
    /\ UNCHANGED <<supabase, new_urls, runs, parse_calls, seen_dup, search,
                   total_found, total_duplicates>>

NextCrawl ==
    \/ StartCrawl
    \/ ScrapePage
    \/ ParseDetail
    \/ SavePage

\* ------------------------------------------------------------------------
\* The deal score (app/main.py)
\* ------------------------------------------------------------------------
\* the prices of the rows: around the thresholds of a predicted price of
\* 100000, and 0, which fillna puts in place of a missing price
Prices ==
    {0, 50000, 79999, 80000, 80001, 89999, 90000, 90001, 99999, 100000,
     100001, 110000, 120000}

\* the predicted prices of the rows
PredictedPrices == {0 - 100000, 0, 50000, 100000, 200000}

\* a row of the frame with the columns deal_score reads: price_difference
\* is price_numeric - predicted_price
FrameRow(price, predicted) ==
    [price_numeric |-> price,
     predicted_price |-> predicted,
     price_difference |-> price - predicted]

\* num / den < a / b for b > 0 and den # 0, in exact arithmetic
RatioBelow(num, den, a, b) ==
    IF den > 0 THEN num * b < a * den ELSE num * b > a * den

DealScoreInclusive(r) ==
    IF r.predicted_price = 0 THEN 0
    ELSE LET d == r.price_difference
             p == r.predicted_price
         IN IF ~RatioBelow(0 - 1, 5, d, p) THEN 95
            ELSE IF ~RatioBelow(0 - 1, 10, d, p) THEN 85
            ELSE IF ~RatioBelow(0, 1, d, p) THEN 70
            ELSE 40

\* deal_score: diff_ratio = price_difference / predicted_price compared
\* with -0.20, -0.10 and 0
DealScore(r) ==
    IF r.predicted_price = 0 THEN 0
    ELSE LET d == r.price_difference
             p == r.predicted_price
         IN IF RatioBelow(d, p, 0 - 1, 5) THEN 95
            ELSE IF RatioBelow(d, p, 0 - 1, 10) THEN 85
            ELSE IF RatioBelow(d, p, 0, 1) THEN 70
            ELSE 40

\* ------------------------------------------------------------------------
\* SupabaseSyncService
\* ------------------------------------------------------------------------

\* _transform_listing_data: the row built from a scraped listing. It has no
\* predicted_price and no deal_score, which stay null in the table.
\* times_expired is history: how often expiry counted the row.
TransformListingData(listing) ==
    [external_id |-> listing.external_id,
     title |-> listing.title,
     price_numeric |-> listing.price_numeric,
     scraped_at |-> Some(now),
     last_updated |-> Some(now),
     is_active |-> TRUE,
     predicted_price |-> None,
     deal_score |-> None,
     times_expired |-> 0]

\* _get_existing_listings: the ids of the active rows, or nothing when the
\* query raises
ExistingListings(ok) ==
    IF ok THEN {i \in 1..Len(listings_olx) : listings_olx[i].is_active} ELSE {}

\* existing_map of _sync_source: one row id per external_id. The query has
\* no ORDER BY, so with several rows of one external_id any of them can be
\* the one the dict keeps.
ExistingMaps(existing) ==
    LET ids == {listings_olx[i].external_id : i \in existing} IN
    {m \in [ids -> existing] : \A e \in ids : listings_olx[m[e]].external_id = e}

\* _needs_update
NeedsUpdate(new_listing, existing_listing) ==
    \/ new_listing.price_numeric # existing_listing.price_numeric
    \/ new_listing.title # existing_listing.title
    \/ /\ existing_listing.last_updated # None
       /\ now - existing_listing.last_updated[1] > StaleDays

\* the partition loop of _sync_source
NewListings(scraped_listings, existing_map) ==
    SelectSeq(scraped_listings, LAMBDA l : l.external_id \notin DOMAIN existing_map)

UpdatedListings(scraped_listings, existing_map) ==
    LET upd == SelectSeq(scraped_listings, LAMBDA l :
                   /\ l.external_id \in DOMAIN existing_map
                   /\ NeedsUpdate(l, listings_olx[existing_map[l.external_id]]))
    IN [i \in 1..Len(upd) |->
           [id |-> existing_map[upd[i].external_id], listing |-> upd[i]]]

UpsertedRows(rows, listings) ==
    LET fresh == SelectSeq(listings, LAMBDA l :
                     \A i \in 1..Len(rows) : rows[i].external_id # l.external_id)
    IN [i \in 1..Len(rows) |->
           IF \E k \in 1..Len(listings) : listings[k].external_id = rows[i].external_id
           THEN [rows[i] EXCEPT !.is_active = TRUE, !.last_updated = Some(now)]
           ELSE rows[i]]
       \o [k \in 1..Len(fresh) |-> TransformListingData(fresh[k])]

\* the insert of _insert_listings: one new row per listing
InsertedRows(rows, listings) ==
    rows \o [k \in 1..Len(listings) |-> TransformListingData(listings[k])]

UpdatedRowKeepPrice(row, listing) ==
    [row EXCEPT !.title = listing.title,
                !.last_updated = Some(now)]

\* the update of _update_listings: update_data without external_id,
\* is_active and scraped_at
UpdatedRow(row, listing) ==
    [row EXCEPT !.title = listing.title,
                !.price_numeric = listing.price_numeric,
                !.last_updated = Some(now)]

\* the condition of _update_listings under which the price change is saved
PriceChanged(old, new) == Truthy(old) /\ Truthy(new) /\ old # new

ScrapedBefore(row, cutoff) == row.scraped_at # None /\ row.scraped_at[1] < cutoff

ExpiresAnyStale(row, cutoff) == ScrapedBefore(row, cutoff)

\* the filter of the update in _mark_expired_listings
Expires(row, cutoff) == row.is_active /\ ScrapedBefore(row, cutoff)

\* the rows an expiry update returns: is_active set to False
MarkedRow(row) ==
    IF "times_expired" \in DOMAIN row
    THEN [row EXCEPT !.is_active = FALSE, !.times_expired = @ + 1]
    ELSE [row EXCEPT !.is_active = FALSE]

\* one update of _mark_expired_listings on one table
ExpireTable(rows, cutoff) ==
    [i \in 1..Len(rows) |->
        IF Expires(rows[i], cutoff) THEN MarkedRow(rows[i]) ELSE rows[i]]

\* len(response.data) of that update
ExpiredIn(rows, cutoff) ==
    Cardinality({i \in 1..Len(rows) : Expires(rows[i], cutoff)})

\* a row of listings_olx stored by an earlier run, with the predicted price
\* and the deal score that were computed for it
StoredRow ==
    [external_id |-> "a", title |-> "t1", price_numeric |-> Some(100),
     scraped_at |-> Some(0), last_updated |-> Some(0), is_active |-> TRUE,
     predicted_price |-> Some(200),
     deal_score |-> Some(DealScore(FrameRow(100, 200))),
     times_expired |-> 0]

\* a row stored ExpiryDays + 1 days before and marked inactive by an earlier
\* run
ExpiredRow ==
    [external_id |-> "a", title |-> "t1", price_numeric |-> Some(100),
     scraped_at |-> Some(0 - ExpiryDays - 1),
     last_updated |-> Some(0 - ExpiryDays - 1), is_active |-> FALSE,
     predicted_price |-> Some(200),
     deal_score |-> Some(DealScore(FrameRow(100, 200))),
     times_expired |-> 1]

SyncInit ==
    /\ now = 0
    /\ listings_olx \in {<< >>, <<StoredRow>>, <<ExpiredRow>>}
    /\ price_history = << >>
    /\ sync_pc = "idle"
    /\ new_listings = << >>
    /\ updated_listings = << >>
    /\ old_price = None
    /\ updated_count = 0
    /\ expired_count = 0
    /\ syncs = 0
    /\ store_failed = FALSE
    /\ scraped = << >>
    /\ scraped_ids = {}

\* time passes between two runs of the service
Tick ==
    /\ sync_pc = "idle"
    /\ syncs < MaxSyncs
    /\ \E d \in Days : d > now /\ now' = d
    /\ UNCHANGED <<listings_olx, price_history, sync_pc, new_listings,
                   updated_listings, old_price, updated_count, expired_count,
                   syncs, store_failed, scraped, scraped_ids>>
    /\ UNCHANGED <<crawlVars, extractVars, olxVars, restVars>>

\* where _sync_source goes after the partition and after the insert
AfterPartition(new, upd) ==
    IF new # << >> THEN "insert" ELSE IF upd # << >> THEN "update" ELSE "expire"

\* sync_all_sources up to the end of the partition loop of _sync_source:
\* batch is what scraper.scrape_listings returned (empty also stands for a
\* scrape that raised), get_raised says whether the query of
\* _get_existing_listings raised. MaxSyncs bounds the runs that scraped
\* something; a run that scraped nothing goes straight to the expiry.
StartSync ==
    /\ sync_pc = "idle"
    /\ \E batch \in SeqsUpTo(ScrapedListings, MaxBatch) :
          /\ scraped' = batch
          /\ scraped_ids' = {batch[k].external_id : k \in 1..Len(batch)}
          /\ IF batch = << >>
             THEN /\ new_listings' = << >>
                  /\ updated_listings' = << >>
                  /\ sync_pc' = "expire"
                  /\ UNCHANGED <<syncs, store_failed>>
             ELSE /\ syncs < MaxSyncs
                  /\ syncs' = syncs + 1
                  /\ \E get_raised \in BOOLEAN :
                     \E existing_map \in ExistingMaps(ExistingListings(~get_raised)) :
                        /\ new_listings' = NewListings(batch, existing_map)
                        /\ updated_listings' = UpdatedListings(batch, existing_map)
                        /\ sync_pc' = AfterPartition(new_listings', updated_listings')
                        /\ store_failed' = get_raised
    /\ expired_count' = 0
    /\ updated_count' = 0
    /\ UNCHANGED <<now, listings_olx, price_history, old_price>>
    /\ UNCHANGED <<crawlVars, extractVars, olxVars, restVars>>

\* _insert_listings: one insert call for the batch (a batch is shorter than
\* batch_size = 100), which can raise
InsertListings ==
    /\ sync_pc = "insert"
    /\ \E insert_raised \in BOOLEAN :
          /\ listings_olx' = IF ~insert_raised
                                THEN InsertedRows(listings_olx, new_listings)
                                ELSE listings_olx
          /\ store_failed' = insert_raised
    /\ new_listings' = << >>
    /\ sync_pc' = AfterPartition(<< >>, updated_listings)
    /\ scraped' = << >>
    /\ UNCHANGED <<now, price_history, updated_listings, old_price,
                   updated_count, expired_count, syncs, scraped_ids>>
    /\ UNCHANGED <<crawlVars, extractVars, olxVars, restVars>>

\* one iteration of the loop of _update_listings up to the price history:
\* read the old price, write the row. A write that raises ends
\* _update_listings, which then returns 0 from its except clause; a write
\* that finds no row is not counted. old_price is local to the iteration: it
\* is None again when the iteration ends.
UpdateWrite ==
    /\ sync_pc = "update"
    /\ updated_listings # << >>
    /\ LET u == Head(updated_listings)
           rest == Tail(updated_listings) IN
       \E read_raised \in BOOLEAN, write \in {"ok", "vanished", "raise"} :
          LET read == IF read_raised THEN None ELSE listings_olx[u.id].price_numeric IN
          /\ store_failed' = (read_raised \/ write = "raise")
          /\ CASE write = "raise" ->
                    /\ updated_listings' = << >>
                    /\ sync_pc' = "expire"
                    /\ old_price' = None
                    /\ updated_count' = 0
                    /\ UNCHANGED listings_olx
               [] write = "vanished" ->
                    /\ updated_listings' = rest
                    /\ sync_pc' = AfterPartition(<< >>, rest)
                    /\ old_price' = None
                    /\ UNCHANGED <<listings_olx, updated_count>>
               [] write = "ok" ->
                    /\ listings_olx' = [listings_olx EXCEPT
                                           ![u.id] = UpdatedRow(@, u.listing)]
                    /\ updated_count' = updated_count + 1
                    /\ IF PriceChanged(read, u.listing.price_numeric)
                       THEN /\ sync_pc' = "history"
                            /\ old_price' = read
                            /\ UNCHANGED updated_listings
                       ELSE /\ updated_listings' = rest
                            /\ sync_pc' = AfterPartition(<< >>, rest)
                            /\ old_price' = None
    /\ scraped' = << >>
    /\ UNCHANGED <<now, price_history, new_listings, expired_count, syncs,
                   scraped_ids>>
    /\ UNCHANGED <<crawlVars, extractVars, olxVars, restVars>>

\* _save_price_history for the row just written; a failing insert is only
\* logged
SaveHistory ==
    /\ sync_pc = "history"
    /\ LET u == Head(updated_listings)
           rest == Tail(updated_listings) IN
          /\ \E insert_raised \in BOOLEAN :
                /\ price_history' =
                      IF ~insert_raised
                      THEN Append(price_history,
                                  [listing_id |-> u.id,
                                   old_price |-> old_price,
                                   new_price |-> u.listing.price_numeric])
                      ELSE price_history
                /\ store_failed' = insert_raised
          /\ updated_listings' = rest
          /\ sync_pc' = AfterPartition(<< >>, rest)
    /\ old_price' = None
    /\ UNCHANGED <<now, listings_olx, new_listings, updated_count,
                   expired_count, syncs, scraped, scraped_ids>>
    /\ UNCHANGED <<crawlVars, extractVars, olxVars, restVars>>

\* _mark_expired_listings over the tables of SOURCE_TABLES, at the end of
\* sync_all_sources; an update that raises skips its table
MarkExpired ==
    /\ sync_pc = "expire"
    /\ LET cutoff == now - ExpiryDays IN
       \E olx_raised \in BOOLEAN, nekretnine_raised \in BOOLEAN :
          /\ listings_olx' = IF olx_raised THEN listings_olx
                                           ELSE ExpireTable(listings_olx, cutoff)
          /\ listings_nekretnine' =
                IF nekretnine_raised THEN listings_nekretnine
                                     ELSE ExpireTable(listings_nekretnine, cutoff)
          /\ expired_count' =
                (IF olx_raised THEN 0 ELSE ExpiredIn(listings_olx, cutoff))
                + (IF nekretnine_raised THEN 0
                                        ELSE ExpiredIn(listings_nekretnine, cutoff))
    /\ sync_pc' = "idle"
    /\ store_failed' = FALSE
    /\ scraped' = << >>
    /\ scraped_ids' = {}
    /\ updated_count' = 0
    /\ UNCHANGED <<now, price_history, new_listings, updated_listings,
                   old_price, syncs>>
    /\ UNCHANGED <<supabase, existing_urls, crawl_pc, page, new_urls,
                   page_listings, all_listings, runs, parse_calls,
                   insert_calls, seen_dup, paced, search, total_found,
                   total_duplicates, total_saved, returned>>
    /\ UNCHANGED <<extractVars, olxVars, restVars>>

NextSync ==
    \/ Tick
    \/ StartSync
    \/ InsertListings
    \/ UpdateWrite
    \/ SaveHistory
    \/ MarkExpired

\* the coordinates _transform_listing_data puts into the row: each one only
\* when it is truthy
TransformCoordinates(listing) ==
    <<IF Truthy(listing.latitude) THEN listing.latitude ELSE None,
      IF Truthy(listing.longitude) THEN listing.longitude ELSE None>>

\* the coordinates _save_listings_to_database puts into the row
SavedCoordinates(listing) == <<listing.latitude, listing.longitude>>

\* ------------------------------------------------------------------------
\* The field extractor at work on one detail document
\* ------------------------------------------------------------------------
NotParsed == [kind |-> "none"]

\* no document is being parsed
ExtractIdle ==
    /\ ext_pc = "idle"
    /\ doc = None
    /\ gmaps = FALSE
    /\ coords = NoCoords
    /\ parsed = NotParsed
    /\ stored_coords = NoCoords

\* a scraper, with or without a geocoder, in front of a detail document
ExtractInit ==
    /\ ext_pc = "start"
    /\ doc \in Docs
    /\ gmaps \in BOOLEAN
    /\ coords = NoCoords
    /\ parsed = NotParsed
    /\ stored_coords = NoCoords

\* parse_detail_page(url); coords is what extract_coordinates_from_leaflet
\* returned inside the call
ParseDetailPageCall ==
    /\ ext_pc = "start"
    /\ parsed' = ParseDetailPage(doc, gmaps)
    /\ coords' = IF doc.fetched THEN ExtractCoordinatesFromLeaflet(doc)
                                ELSE NoCoords
    /\ ext_pc' = IF parsed'.kind = "listing" THEN "store" ELSE "done"
    /\ UNCHANGED <<doc, gmaps, stored_coords>>
    /\ UNCHANGED <<crawlVars, syncVars, olxVars, restVars>>

\* the listing reaches a table: through _transform_listing_data of the sync
\* service, or through _save_listings_to_database of the scraper
StoreListing ==
    /\ ext_pc = "store"
    /\ \E by_sync \in BOOLEAN :
          stored_coords' = IF by_sync THEN TransformCoordinates(parsed.details)
                               ELSE SavedCoordinates(parsed.details)
    /\ ext_pc' = "stored"
    /\ UNCHANGED <<doc, gmaps, coords, parsed>>
    /\ UNCHANGED <<crawlVars, syncVars, olxVars, restVars>>

\* geocode_address called with the address of the document
GeocodeAddressCall ==
    /\ ext_pc = "start"
    /\ doc.fetched
    /\ doc.address # None
    /\ \E result \in GeocodeResults : coords' = GeocodeAddress(gmaps, result)
    /\ ext_pc' = "geocoded"
    /\ UNCHANGED <<doc, gmaps, parsed, stored_coords>>
    /\ UNCHANGED <<crawlVars, syncVars, olxVars, restVars>>

NextExtract ==
    \/ ParseDetailPageCall
    \/ StoreListing
    \/ GeocodeAddressCall

\* ------------------------------------------------------------------------
\* OLXScraper
\* ------------------------------------------------------------------------
\* parse_detail_page of OLXScraper: None when the page cannot be fetched,
\* otherwise a listing with whatever the selectors found; the try block
\* reads title and price only to log them
OlxParseDetailPage(d) ==
    IF ~d.fetched THEN [kind |-> "skip"]
    ELSE [kind |-> "listing",
          details |-> [title |-> d.title, price_numeric |-> d.price_numeric]]

OlxParseKinds == {OlxParseDetailPage(d).kind : d \in Docs}

\* list(dict.fromkeys(links)): the first occurrence of every link
RECURSIVE DictFromKeys(_)
DictFromKeys(links) ==
    IF links = << >> THEN << >>
    ELSE LET init == DictFromKeys(SubSeq(links, 1, Len(links) - 1))
             last == links[Len(links)]
         IN IF last \in Range(init) THEN init ELSE Append(init, last)

OlxIdle ==
    /\ olx_pc = "idle"
    /\ olx_page = 0
    /\ olx_links = << >>
    /\ olx_all_listings = 0
    /\ olx_driver = "none"
    /\ olx_runs = 0
    /\ olx_opened = 0
    /\ olx_quit = 0
    /\ olx_paced = TRUE
    /\ olx_search = "none"
    /\ olx_exit = "none"

\* a new OLXScraper: no driver yet
OlxInit == OlxIdle

\* the finally block of scrape_listings: _close_driver, whose quit() can
\* raise; exit says how the try block was left
OlxCloseDriver(exit) ==
    /\ olx_pc' = "done"
    /\ olx_links' = << >>
    /\ IF olx_driver = "open"
       THEN \E quit_raised \in BOOLEAN :
               /\ olx_quit' = olx_quit + 1
               /\ olx_driver' = IF quit_raised THEN "open" ELSE "none"
               /\ olx_exit' = IF quit_raised THEN "raise" ELSE exit
       ELSE /\ olx_exit' = exit
            /\ UNCHANGED <<olx_quit, olx_driver>>

\* the end of one iteration of the page loop: the next page, or the end of
\* the loop and the finally block
OlxNextPage ==
    IF olx_page < MaxPages
    THEN /\ olx_pc' = "page"
         /\ olx_page' = olx_page + 1
         /\ olx_links' = << >>
         /\ UNCHANGED <<olx_driver, olx_quit, olx_exit>>
    ELSE /\ OlxCloseDriver("return")
         /\ olx_page' = olx_page

\* scrape_listings up to the loop: _init_driver, outside the try block. It
\* returns at once when the driver field is set; otherwise it can raise
\* before a browser session exists, or after webdriver.Firefox returned
\* (set_page_load_timeout, execute_script). A behaviour follows one scraper:
\* this one starts only when NekretnineScraper has not run.
OlxStart ==
    /\ olx_pc \in {"idle", "done"}
    /\ olx_runs < MaxRuns
    /\ runs = 0
    /\ olx_runs' = olx_runs + 1
    /\ IF olx_driver = "open"
       THEN /\ olx_pc' = "page"
            /\ olx_exit' = "none"
            /\ olx_opened' = 0
            /\ UNCHANGED olx_driver
       ELSE \E init \in {"ok", "raise_before_session", "raise_after_session"} :
               /\ olx_pc' = IF init = "ok" THEN "page" ELSE "done"
               /\ olx_exit' = IF init = "ok" THEN "none" ELSE "raise"
               /\ olx_driver' = IF init = "raise_before_session" THEN "none"
                                                                  ELSE "open"
               /\ olx_opened' = IF init = "raise_before_session" THEN 0 ELSE 1
    /\ olx_quit' = 0
    /\ olx_page' = 1
    /\ olx_links' = << >>
    /\ olx_all_listings' = 0
    /\ olx_paced' = TRUE
    /\ olx_search' = "none"
    /\ UNCHANGED <<crawlVars, syncVars, extractVars, restVars>>

\* one iteration of the page loop up to the detail loop: the search page is
\* fetched; a page that cannot be fetched or has no listings section is
\* skipped, a page without links ends the loop. No delay follows the load.
OlxScrapePage ==
    /\ olx_pc = "page"
    /\ olx_paced' = FALSE
    /\ \E result \in {"interrupt", "failed", "no_section", "links"} :
       \E links \in IF result = "links" THEN SeqsUpTo(Urls, MaxLinks)
                                        ELSE {<< >>} :
          /\ olx_search' = IF result = "links" /\ links = << >> THEN "empty"
                                                                ELSE result
          /\ CASE result = "interrupt" ->
                    /\ OlxCloseDriver("raise")
                    /\ olx_page' = olx_page
               [] result \in {"failed", "no_section"} -> OlxNextPage
               [] result = "links" /\ links = << >> ->
                    /\ OlxCloseDriver("return")
                    /\ olx_page' = olx_page
               [] result = "links" /\ links # << >> ->
                    /\ olx_pc' = "detail"
                    /\ olx_links' = DictFromKeys(links)
                    /\ UNCHANGED <<olx_page, olx_driver, olx_quit, olx_exit>>
    /\ UNCHANGED <<olx_all_listings, olx_runs, olx_opened>>
    /\ UNCHANGED <<crawlVars, syncVars, extractVars, restVars>>

\* one iteration of the detail loop: parse_detail_page, then the random
\* delay; a KeyboardInterrupt is re-raised and leaves through the finally
\* block
OlxParseDetail ==
    /\ olx_pc = "detail"
    /\ olx_links # << >>
    /\ \E kind \in OlxParseKinds \cup {"interrupt"} :
          IF kind = "interrupt"
          THEN /\ OlxCloseDriver("raise")
               /\ olx_paced' = FALSE
               /\ UNCHANGED <<olx_page, olx_all_listings>>
          ELSE /\ olx_all_listings' =
                     IF kind = "listing" THEN olx_all_listings + 1
                                         ELSE olx_all_listings
               /\ olx_paced' = TRUE
               /\ IF Tail(olx_links) = << >>
                  THEN OlxNextPage
                  ELSE /\ olx_links' = Tail(olx_links)
                       /\ UNCHANGED <<olx_pc, olx_page, olx_driver, olx_quit,
                                      olx_exit>>
    /\ UNCHANGED <<olx_runs, olx_opened, olx_search>>
    /\ UNCHANGED <<crawlVars, syncVars, extractVars, restVars>>

NextOlx ==
    \/ OlxStart
    \/ OlxScrapePage
    \/ OlxParseDetail

\* ------------------------------------------------------------------------
\* SupabaseSyncService.sync_all_sources: the loop over the sources
\* ------------------------------------------------------------------------
\* the sources of SOURCE_TABLES
SourceNames == {"olx_ba", "nekretnine_ba"}

\* self.scrapers as __init__ builds it: OLX alone, or both sources once the
\* second entry is in use
ScraperConfigs == {<<"olx_ba">>, <<"olx_ba", "nekretnine_ba">>}

\* what _sync_source can return
SourceStats ==
    {[scraped |-> 0, inserted |-> 0, updated |-> 0],
     [scraped |-> 1, inserted |-> 1, updated |-> 0],
     [scraped |-> 2, inserted |-> 1, updated |-> 1],
     [scraped |-> 2, inserted |-> 2, updated |-> 0],
     [scraped |-> 2, inserted |-> 0, updated |-> 2]}

\* total_stats at the start of sync_all_sources
NewTotalStats ==
    [sources_synced |-> 0, total_scraped |-> 0, total_inserted |-> 0,
     total_updated |-> 0, total_errors |-> 0]

\* the body of the try of one loop iteration, when _sync_source returned
AddStats(totals, stats) ==
    [totals EXCEPT !.sources_synced = @ + 1,
                  !.total_scraped = @ + stats.scraped,
                  !.total_inserted = @ + stats.inserted,
                  !.total_updated = @ + stats.updated]

\* the except clause of one loop iteration
AddError(totals) == [totals EXCEPT !.total_errors = @ + 1]

AfterSourceErrorAbort(idx) == "expire"

\* where the loop goes after the iteration of source idx, whether it was
\* synced or raised
AfterSource(idx) == IF idx < Len(scrapers) THEN "source" ELSE "expire"

AllIdle ==
    /\ all_pc = "idle"
    /\ source_idx = 0
    /\ total_stats = NewTotalStats
    /\ all_runs = 0
    /\ attempted = {}
    /\ failed_sources = {}
    /\ expiry_runs = 0

AllInit ==
    /\ scrapers \in ScraperConfigs
    /\ AllIdle

\* sync_all_sources up to its loop
StartSyncAll ==
    /\ all_pc \in {"idle", "done"}
    /\ all_runs < MaxAllRuns
    /\ all_runs' = all_runs + 1
    /\ total_stats' = NewTotalStats
    /\ source_idx' = 1
    /\ all_pc' = "source"
    /\ attempted' = {}
    /\ failed_sources' = {}
    /\ expiry_runs' = 0
    /\ UNCHANGED scrapers
    /\ UNCHANGED <<crawlVars, syncVars, extractVars, olxVars, scoreVars,
                   muniVars, cleanVars, schedVars>>

\* one iteration of the loop: _sync_source returns its statistics, raises an
\* Exception (the driver cannot be started, a store call fails), or a
\* KeyboardInterrupt passes through, which no clause of sync_all_sources
\* catches
SyncSource ==
    /\ all_pc = "source"
    /\ LET name == scrapers[source_idx] IN
          /\ attempted' = attempted \cup {name}
          /\ \E outcome \in {"return", "raise", "interrupt"} :
                CASE outcome = "return" ->
                        /\ \E stats \in SourceStats :
                              total_stats' = AddStats(total_stats, stats)
                        /\ all_pc' = AfterSource(source_idx)
                        /\ UNCHANGED failed_sources
                  [] outcome = "raise" ->
                        /\ total_stats' = AddError(total_stats)
                        /\ all_pc' = AfterSource(source_idx)
                        /\ failed_sources' = failed_sources \cup {name}
                  [] outcome = "interrupt" ->
                        /\ all_pc' = "interrupted"
                        /\ UNCHANGED <<total_stats, failed_sources>>
    /\ source_idx' = source_idx + 1
    /\ UNCHANGED <<scrapers, all_runs, expiry_runs>>
    /\ UNCHANGED <<crawlVars, syncVars, extractVars, olxVars, scoreVars,
                   muniVars, cleanVars, schedVars>>

\* the rest of sync_all_sources: _mark_expired_listings, whose failure is
\* only printed, then _log_sync and the return
ExpireAndLog ==
    /\ all_pc = "expire"
    /\ expiry_runs' = expiry_runs + 1
    /\ all_pc' = "done"
    /\ UNCHANGED <<scrapers, source_idx, total_stats, all_runs, attempted,
                   failed_sources>>
    /\ UNCHANGED <<crawlVars, syncVars, extractVars, olxVars, scoreVars,
                   muniVars, cleanVars, schedVars>>

NextAll ==
    \/ StartSyncAll
    \/ SyncSource
    \/ ExpireAndLog

\* ------------------------------------------------------------------------
\* The deal score of one row
\* ------------------------------------------------------------------------
ScoreIdle ==
    /\ score_pc = "start"
    /\ score = 0

ScoreInit ==
    /\ \E price \in Prices, predicted \in PredictedPrices :
          frame_row = FrameRow(price, predicted)
    /\ ScoreIdle

\* df.apply(deal_score, axis=1) on the row
ApplyDealScore ==
    /\ score_pc = "start"
    /\ score' = DealScore(frame_row)
    /\ score_pc' = "done"
    /\ UNCHANGED frame_row
    /\ UNCHANGED <<crawlVars, syncVars, extractVars, olxVars, allVars,
                   muniVars, cleanVars, schedVars>>

NextScore ==
    \/ ApplyDealScore

\* ------------------------------------------------------------------------
\* The municipality normalizer (scripts/municipality_mapper.py) and the
\* municipality of live ingestion
\* ------------------------------------------------------------------------
\* A string is a record: the names and words it is made of, its letter case
\* ("registered": every word spelled as below; "lower"; "upper"), and whether
\* blanks surround it. The empty string has no words and no blanks. Names
\* are written without their diacritics.

\* CANONICAL
CANONICAL ==
    {"Sarajevo - Centar", "Sarajevo - Novi Grad", "Sarajevo - Novo Sarajevo",
     "Sarajevo - Stari Grad", "Ilidza", "Vogosca", "Ilijas", "Hadzici",
     "Trnovo"}

\* what a location string is made of: the canonical names, names of
\* neighbourhoods, and a town outside the canton
Words == CANONICAL \cup {"Centar", "Grbavica", "Dobrinja", "Butmir", "Zenica"}

Casings == {"registered", "lower", "upper"}

Text(words, casing, padded) ==
    [words |-> words, casing |-> casing, padded |-> padded]

EmptyString == Text(<< >>, "registered", FALSE)

\* the string of a canonical name
CanonicalText(c) == Text(<<c>>, "registered", FALSE)

\* str.strip and str.lower
Strip(text) == [text EXCEPT !.padded = FALSE]

Lower(text) ==
    IF text.words = << >> THEN text ELSE [text EXCEPT !.casing = "lower"]

\* Python truthiness of an optional string: None and "" are false
NonEmpty(x) == x # None /\ x[1] # EmptyString

\* the lower-case fragments found in a word, among those the rules of
\* PATTERN_MAP and the keys of NEIGHBORHOOD_MAPPING look for
Fragments(word) ==
    CASE word = "Sarajevo - Centar" -> {"centar"}
      [] word = "Sarajevo - Novi Grad" -> {"novi grad"}
      [] word = "Sarajevo - Novo Sarajevo" -> {"novo sarajevo"}
      [] word = "Sarajevo - Stari Grad" -> {"stari grad"}
      [] word = "Ilidza" -> {"ilidz", "ilidza"}
      [] word = "Vogosca" -> {"vogo", "vogosca"}
      [] word = "Ilijas" -> {"ilijas"}
      [] word = "Hadzici" -> {"hadzici"}
      [] word = "Trnovo" -> {"trnovo"}
      [] word = "Centar" -> {"centar"}
      [] word = "Grbavica" -> {"grbavica"}
      [] word = "Dobrinja" -> {"dobrinja"}
      [] word = "Butmir" -> {"butmir"}
      [] OTHER -> {}

\* the fragments found in a string, whatever its case
FragmentsOf(text) == UNION {Fragments(text.words[i]) : i \in 1..Len(text.words)}

\* PATTERN_MAP: the rules in list order, each with the alternatives of its
\* pattern that occur in Words
PATTERN_MAP ==
    <<[pattern |-> {"centar"}, target |-> "Sarajevo - Centar"],
      [pattern |-> {"novo sarajevo", "grbavica"}, target |-> "Sarajevo - Novo Sarajevo"],
      [pattern |-> {"novi grad", "dobrinja"}, target |-> "Sarajevo - Novi Grad"],
      [pattern |-> {"stari grad"}, target |-> "Sarajevo - Stari Grad"],
      [pattern |-> {"ilidz", "butmir"}, target |-> "Ilidza"],
      [pattern |-> {"vogosca", "vogo"}, target |-> "Vogosca"],
      [pattern |-> {"ilijas"}, target |-> "Ilijas"],
      [pattern |-> {"hadzici"}, target |-> "Hadzici"],
      [pattern |-> {"trnovo"}, target |-> "Trnovo"]>>

\* pattern.search(text) of a pattern compiled with re.I
Search(pattern, text) == pattern \cap FragmentsOf(text) # {}

\* the loop over PATTERN_MAP: the target of the first rule that matches
RECURSIVE FirstMatch(_, _)
FirstMatch(rules, text) ==
    IF rules = << >> THEN None
    ELSE IF Search(Head(rules).pattern, text) THEN Some(Head(rules).target)
    ELSE FirstMatch(Tail(rules), text)

MatchRulesLast(text) ==
    LET hits == {i \in 1..Len(PATTERN_MAP) : Search(PATTERN_MAP[i].pattern, text)} IN
    IF hits = {} THEN None
    ELSE Some(PATTERN_MAP[CHOOSE i \in hits : \A j \in hits : j <= i].target)

\* the loop of map_municipality over PATTERN_MAP
MatchRules(text) == FirstMatch(PATTERN_MAP, text)

\* map_municipality
MapMunicipality(r) ==
    IF ~NonEmpty(r) THEN None
    ELSE LET text == Strip(r[1])
             lower == Lower(text)
         IN IF \E c \in CANONICAL : Lower(CanonicalText(c)) = lower
            THEN Some(CHOOSE c \in CANONICAL : Lower(CanonicalText(c)) = lower)
            ELSE MatchRules(text)

\* clean_text of both scrapers: None for None and for "", else the text
\* without the blanks around it
CleanText(x) == IF NonEmpty(x) THEN Some(Strip(x[1])) ELSE None

\* NEIGHBORHOOD_MAPPING of NekretnineScraper, in dict order: the keys that
\* occur in Words
NEIGHBORHOOD_MAPPING ==
    <<[key |-> "centar", target |-> "Sarajevo - Centar"],
      [key |-> "stari grad", target |-> "Sarajevo - Stari Grad"],
      [key |-> "novo sarajevo", target |-> "Sarajevo - Novo Sarajevo"],
      [key |-> "grbavica", target |-> "Sarajevo - Novo Sarajevo"],
      [key |-> "novi grad", target |-> "Sarajevo - Novi Grad"],
      [key |-> "dobrinja", target |-> "Sarajevo - Novi Grad"],
      [key |-> "ilidza", target |-> "Ilidza"],
      [key |-> "butmir", target |-> "Ilidza"],
      [key |-> "hadzici", target |-> "Hadzici"],
      [key |-> "vogosca", target |-> "Vogosca"],
      [key |-> "ilijas", target |-> "Ilijas"],
      [key |-> "trnovo", target |-> "Trnovo"]>>

\* the loop of _standardize_municipality over the lower-cased text of
\* municipality, title and description
RECURSIVE FirstNeighborhood(_, _)
FirstNeighborhood(mapping, found) ==
    IF mapping = << >> THEN None
    ELSE IF Head(mapping).key \in found THEN Some(Head(mapping).target)
    ELSE FirstNeighborhood(Tail(mapping), found)

\* _standardize_municipality as parse_detail_page calls it, with the title
\* as municipality: the target of the first key found, else the
\* municipality as it is
StandardizeMunicipality(m, title, desc) ==
    IF ~NonEmpty(m) THEN None
    ELSE LET found == FragmentsOf(m[1]) \cup FragmentsOf(title[1])
                         \cup FragmentsOf(desc)
             hit == FirstNeighborhood(NEIGHBORHOOD_MAPPING, found)
         IN IF hit # None THEN Some(CanonicalText(hit[1])) ELSE m


\* the municipality OLXScraper.parse_detail_page puts into the record: the
\* cleaned text of the city pill, or None without the pill
OlxMunicipality(tag) == IF tag = None THEN None ELSE CleanText(tag)

\* the location strings of the model, and None
RawTexts ==
    {Some(Text(w, c, p)) : w \in SeqsUpTo(Words, MaxWords), c \in Casings,
                           p \in BOOLEAN}
    \cup {None}

Descriptions == {EmptyString, Text(<<"Grbavica">>, "lower", FALSE)}

MuniIdle ==
    /\ muni_pc = "start"
    /\ description = EmptyString
    /\ mapped = None
    /\ remapped = None
    /\ municipality = None

MuniInit ==
    /\ raw \in RawTexts
    /\ raw # None => (raw[1].words = << >> => raw[1].casing = "registered")
    /\ MuniIdle

\* map_municipality(raw)
MapMunicipalityCall ==
    /\ muni_pc = "start"
    /\ mapped' = MapMunicipality(raw)
    /\ muni_pc' = "mapped"
    /\ UNCHANGED <<raw, description, remapped, municipality>>
    /\ UNCHANGED <<crawlVars, syncVars, extractVars, olxVars, allVars,
                   scoreVars, cleanVars, schedVars>>

\* map_municipality applied to a name it returned
MapMunicipalityAgain ==
    /\ muni_pc = "mapped"
    /\ mapped # None
    /\ remapped' = MapMunicipality(Some(CanonicalText(mapped[1])))
    /\ muni_pc' = "remapped"
    /\ UNCHANGED <<raw, description, mapped, municipality>>
    /\ UNCHANGED <<crawlVars, syncVars, extractVars, olxVars, allVars,
                   scoreVars, cleanVars, schedVars>>

\* NekretnineScraper.parse_detail_page: the municipality of the record, for
\* a page whose title element reads raw; a page without a title yields no
\* record
NekretnineMunicipality ==
    /\ muni_pc = "start"
    /\ raw # None
    /\ \E desc \in Descriptions :
          /\ description' = desc
          /\ LET title == CleanText(raw) IN
             municipality' = StandardizeMunicipality(title, title, desc)
    /\ muni_pc' = "live"
    /\ UNCHANGED <<raw, mapped, remapped>>
    /\ UNCHANGED <<crawlVars, syncVars, extractVars, olxVars, allVars,
                   scoreVars, cleanVars, schedVars>>

\* OLXScraper.parse_detail_page: the municipality of the record, for a page
\* whose city pill reads raw
OlxMunicipalityCall ==
    /\ muni_pc = "start"
    /\ municipality' = OlxMunicipality(raw)
    /\ muni_pc' = "live"
    /\ UNCHANGED <<raw, description, mapped, remapped>>
    /\ UNCHANGED <<crawlVars, syncVars, extractVars, olxVars, allVars,
                   scoreVars, cleanVars, schedVars>>

NextMuni ==
    \/ MapMunicipalityCall
    \/ MapMunicipalityAgain
    \/ NekretnineMunicipality
    \/ OlxMunicipalityCall

\* ------------------------------------------------------------------------
\* clean_table (scripts/clean_supabase_municipalities.py)
\* ------------------------------------------------------------------------
\* the municipality column of the rows the script finds: null, a canonical
\* name, the same name in lower case, a neighbourhood, and a town that no
\* rule maps
StoredMunicipalities ==
    {None,
     Some(CanonicalText("Ilidza")),
     Some(Text(<<"Ilidza">>, "lower", FALSE)),
     Some(Text(<<"Grbavica">>, "registered", FALSE)),
     Some(Text(<<"Zenica">>, "registered", FALSE))}

\* the tables: the id of a row is its position when the model starts
Tables ==
    {[i \in 1..Len(ms) |-> [id |-> i, municipality |-> ms[i], is_active |-> TRUE]] :
        ms \in SeqsUpTo(StoredMunicipalities, MaxRows)}

RewriteIfOtherName(m, r) == Lower(CanonicalText(m[1])) # Lower(r[1])

\* mapped != raw
RewriteNeeded(m, r) == Some(CanonicalText(m[1])) # r

IssuesWritesAlways(apply, needed) == needed

\* the store calls of an iteration are under "if apply_changes"
IssuesWrites(apply, needed) == apply /\ needed

\* update({"is_active": False}).eq("id", row_id)
Deactivate(t, row_id) ==
    [i \in 1..Len(t) |-> IF t[i].id = row_id THEN [t[i] EXCEPT !.is_active = FALSE]
                                            ELSE t[i]]

\* delete().eq("id", row_id)
Delete(t, row_id) == SelectSeq(t, LAMBDA r : r.id # row_id)

\* update({"municipality": mapped}).eq("id", row_id)
SetMunicipality(t, row_id, m) ==
    [i \in 1..Len(t) |->
        IF t[i].id = row_id THEN [t[i] EXCEPT !.municipality = Some(CanonicalText(m[1]))]
                            ELSE t[i]]

CleanIdle ==
    /\ clean_pc = "idle"
    /\ fetched_rows = << >>
    /\ apply_changes = FALSE
    /\ updated = 0
    /\ dropped = 0
    /\ total = 0
    /\ clean_runs = 0
    /\ table_at_start = << >>
    /\ store_writes = 0
    /\ deactivated = {}
    /\ deleted = {}
    /\ cleaned = FALSE
    /\ cleaned_before = FALSE

CleanInit ==
    /\ table_rows \in Tables
    /\ CleanIdle

\* where clean_table is after a row: at the next row, or at its return
AfterRow(rest) == IF rest = << >> THEN "done" ELSE "loop"

\* clean_table up to its loop: fetch_municipalities, which can raise, and
\* the counters
CleanStart ==
    /\ clean_pc \in {"idle", "done", "failed"}
    /\ clean_runs < MaxCleanRuns
    /\ clean_runs' = clean_runs + 1
    /\ \E apply \in BOOLEAN, fetch_raised \in BOOLEAN :
          /\ apply_changes' = apply
          /\ fetched_rows' = IF fetch_raised THEN << >> ELSE table_rows
          /\ total' = Len(fetched_rows')
          /\ clean_pc' = IF fetch_raised THEN "failed" ELSE AfterRow(fetched_rows')
          /\ cleaned' = (cleaned \/ (apply /\ clean_pc' = "done"))
    /\ updated' = 0
    /\ dropped' = 0
    /\ table_at_start' = table_rows
    /\ store_writes' = 0
    /\ deactivated' = {}
    /\ deleted' = {}
    /\ cleaned_before' = cleaned
    /\ UNCHANGED table_rows
    /\ UNCHANGED <<crawlVars, syncVars, extractVars, olxVars, allVars,
                   scoreVars, muniVars, schedVars>>

\* one iteration of the loop of clean_table. With apply_changes the store
\* calls can raise, which ends clean_table: write is "ok", "raise_first" (the
\* first call of the iteration raises) or "raise_delete" (the delete raises
\* after the row was set inactive).
CleanRow ==
    /\ clean_pc = "loop"
    /\ fetched_rows # << >>
    /\ LET r == Head(fetched_rows)
           rest == Tail(fetched_rows)
           m == MapMunicipality(r.municipality)
           drop == m = None
           rewrite == m # None /\ RewriteNeeded(m, r.municipality)
           writes == IssuesWrites(apply_changes, drop \/ rewrite)
       IN
       /\ dropped' = IF drop THEN dropped + 1 ELSE dropped
       /\ updated' = IF rewrite THEN updated + 1 ELSE updated
       /\ \E write \in IF ~writes THEN {"ok"}
                       ELSE IF drop THEN {"ok", "raise_first", "raise_delete"}
                       ELSE {"ok", "raise_first"} :
             /\ clean_pc' = IF write = "ok" THEN AfterRow(rest) ELSE "failed"
             /\ cleaned' = (cleaned \/ (apply_changes /\ clean_pc' = "done"))
             /\ IF ~writes \/ write = "raise_first"
                THEN UNCHANGED <<table_rows, store_writes, deactivated, deleted>>
                ELSE IF drop
                THEN /\ deactivated' = deactivated \cup {r.id}
                     /\ IF write = "ok"
                        THEN /\ table_rows' = Delete(Deactivate(table_rows, r.id), r.id)
                             /\ deleted' = deleted \cup {r.id}
                             /\ store_writes' = store_writes + 2
                        ELSE /\ table_rows' = Deactivate(table_rows, r.id)
                             /\ store_writes' = store_writes + 1
                             /\ UNCHANGED deleted
                ELSE /\ table_rows' = SetMunicipality(table_rows, r.id, m)
                     /\ store_writes' = store_writes + 1
                     /\ UNCHANGED <<deactivated, deleted>>
       /\ fetched_rows' = rest
    /\ UNCHANGED <<apply_changes, total, clean_runs, table_at_start,
                   cleaned_before>>
    /\ UNCHANGED <<crawlVars, syncVars, extractVars, olxVars, allVars,
                   scoreVars, muniVars, schedVars>>

NextClean ==
    \/ CleanStart
    \/ CleanRow

\* ------------------------------------------------------------------------
\* SyncScheduler (sync_service_supabase.py)
\* ------------------------------------------------------------------------

\* The arguments of the constructor, in hours. With a full sync every two
\* hours an incremental sync fits between two full syncs; with equal
\* intervals the full sync is due whenever the incremental one is.
SyncHours ==
    {[full |-> 2, incremental |-> 1], [full |-> 1, incremental |-> 1]}

\* time.time() when the scheduler starts, in minutes since the epoch
StartTimes == {29000000, 29000030}

\* How long a sync runs, in minutes: no time at all, less than the
\* incremental interval, more than it
SyncDurations == {0, 25, 70}

\* How a sync ends: it returns, it raises (nothing in run_forever handles
\* it), or the user interrupts it
SyncOutcomes == {"return", "raise", "interrupt"}

\* full_sync_hours * 3600 and incremental_sync_hours * 3600
Interval(hours) == hours * MinutesPerHour

\* current_time - self.last_full_sync >= self.full_sync_interval, and the
\* same test of the incremental timer
Due(t, last, interval) == t - last >= interval

\* the branch taken by one iteration: if full is due, elif incremental is due
Branch(t, lastFull, lastIncremental, fullInterval, incrementalInterval) ==
    IF Due(t, lastFull, fullInterval) THEN "full"
    ELSE IF Due(t, lastIncremental, incrementalInterval) THEN "incremental"
    ELSE "none"

KeepIncrementalTimer(t, last) == last

\* self.last_incremental_sync after a full sync: reset to current_time
ResetIncrementalTimer(t, last) == t

SchedIdle ==
    /\ sched_pc = "idle"
    /\ last_full_sync = 0
    /\ last_incremental_sync = 0
    /\ current_time = 0
    /\ ticks = 0
    /\ started = << >>
    /\ full_started_at = None
    /\ sync_started_at = None
    /\ full_syncs = 0
    /\ incremental_syncs = 0

\* SyncScheduler(service) with the default intervals, not running
SchedRest ==
    /\ SchedIdle
    /\ clock = 0
    /\ sched_start = clock
    /\ full_sync_interval = Interval(24)
    /\ incremental_sync_interval = Interval(1)

\* __init__
SchedInit ==
    /\ SchedIdle
    /\ clock \in StartTimes
    /\ sched_start = clock
    /\ \E h \in SyncHours :
          /\ full_sync_interval = Interval(h.full)
          /\ incremental_sync_interval = Interval(h.incremental)

\* run_forever up to the loop
RunForever ==
    /\ sched_pc = "idle"
    /\ sched_pc' = "loop"
    /\ UNCHANGED <<clock, sched_start, full_sync_interval,
                   incremental_sync_interval, last_full_sync,
                   last_incremental_sync, current_time, ticks, started,
                   full_started_at, sync_started_at, full_syncs,
                   incremental_syncs>>
    /\ UNCHANGED <<crawlVars, syncVars, extractVars, olxVars, allVars,
                   scoreVars, muniVars, cleanVars>>

\* One iteration of the loop of run_forever: read the clock, run the sync
\* that is due, set the timers, sleep. The sync takes `duration` minutes and
\* ends with `outcome`; the sleep can be interrupted by the user too.
SchedTick ==
    /\ sched_pc = "loop"
    /\ clock - sched_start < MaxMinutes
    /\ LET t == clock
           kind == Branch(t, last_full_sync, last_incremental_sync,
                          full_sync_interval, incremental_sync_interval)
       IN
       /\ current_time' = t
       /\ ticks' = ticks + 1
       /\ started' = IF kind = "none" THEN << >> ELSE <<kind>>
       /\ full_started_at' = IF kind = "full" THEN Some(t) ELSE full_started_at
       /\ sync_started_at' = IF kind = "none" THEN sync_started_at ELSE Some(t)
       /\ full_syncs' = IF kind = "full" THEN full_syncs + 1 ELSE full_syncs
       /\ incremental_syncs' = IF kind = "incremental" THEN incremental_syncs + 1
                               ELSE incremental_syncs
       /\ \E outcome \in IF kind = "none" THEN {"return"} ELSE SyncOutcomes,
             duration \in IF kind = "none" THEN {0} ELSE SyncDurations,
             slept \in {TRUE, FALSE} :
             IF outcome = "return"
             THEN /\ last_full_sync' = IF kind = "full" THEN t ELSE last_full_sync
                  /\ last_incremental_sync' =
                        IF kind = "full"
                        THEN ResetIncrementalTimer(t, last_incremental_sync)
                        ELSE IF kind = "incremental" THEN t
                        ELSE last_incremental_sync
                  /\ sched_pc' = IF slept THEN "loop" ELSE "stopped"
                  /\ clock' = clock + duration + (IF slept THEN SleepMinutes ELSE 0)
             ELSE /\ slept
                  /\ sched_pc' = IF outcome = "raise" THEN "crashed" ELSE "stopped"
                  /\ clock' = clock + duration
                  /\ UNCHANGED <<last_full_sync, last_incremental_sync>>
    /\ UNCHANGED <<sched_start, full_sync_interval, incremental_sync_interval>>
    /\ UNCHANGED <<crawlVars, syncVars, extractVars, olxVars, allVars,
                   scoreVars, muniVars, cleanVars>>

NextSched ==
    \/ RunForever
    \/ SchedTick


\* what is at rest while another component is checked
RestIdle ==
    /\ AllInit /\ scrapers = <<"olx_ba">>
    /\ ScoreIdle /\ frame_row = FrameRow(0, 0)
    /\ MuniIdle /\ raw = None
    /\ CleanIdle /\ table_rows = << >>
    /\ SchedRest

\* the sync service with the scraper of nekretnine.ba not in use: no client,
\* an empty table
InitSync ==
    /\ SyncInit
    /\ CrawlInit /\ ~supabase /\ listings_nekretnine = << >>
    /\ ExtractIdle
    /\ OlxInit
    /\ RestIdle

SpecSync == InitSync /\ [][NextSync]_vars

\* the scraper of nekretnine.ba with the sync service not in use
InitCrawl ==
    /\ CrawlInit
    /\ SyncInit /\ listings_olx = << >>
    /\ ExtractIdle
    /\ OlxInit
    /\ RestIdle

SpecCrawl == InitCrawl /\ [][NextCrawl]_vars

\* the field extractor on one document, scrapers and sync service not in use
InitExtract ==
    /\ ExtractInit
    /\ CrawlInit /\ ~supabase /\ listings_nekretnine = << >>
    /\ SyncInit /\ listings_olx = << >>
    /\ OlxInit
    /\ RestIdle

SpecExtract == InitExtract /\ [][NextExtract]_vars

\* one of the two scrapers crawling its source
InitScrapers ==
    /\ CrawlInit
    /\ OlxInit
    /\ SyncInit /\ listings_olx = << >>
    /\ ExtractIdle
    /\ RestIdle

NextScrapers ==
    \/ NextCrawl
    \/ NextOlx

SpecScrapers == InitScrapers /\ [][NextScrapers]_vars

\* the loop of sync_all_sources over its sources, everything else at rest
InitAll ==
    /\ AllInit
    /\ ScoreIdle /\ frame_row = FrameRow(0, 0)
    /\ MuniIdle /\ raw = None
    /\ CleanIdle /\ table_rows = << >>
    /\ SchedRest
    /\ CrawlInit /\ ~supabase /\ listings_nekretnine = << >>
    /\ SyncInit /\ listings_olx = << >>
    /\ ExtractIdle
    /\ OlxInit

SpecAll == InitAll /\ [][NextAll]_vars

\* deal_score on one row, everything else at rest
InitScore ==
    /\ ScoreInit
    /\ MuniIdle /\ raw = None
    /\ CleanIdle /\ table_rows = << >>
    /\ SchedRest
    /\ AllInit /\ scrapers = <<"olx_ba">>
    /\ CrawlInit /\ ~supabase /\ listings_nekretnine = << >>
    /\ SyncInit /\ listings_olx = << >>
    /\ ExtractIdle
    /\ OlxInit

SpecScore == InitScore /\ [][NextScore]_vars

\* the municipality normalizer on one string, everything else at rest
InitMuni ==
    /\ MuniInit
    /\ CleanIdle /\ table_rows = << >>
    /\ SchedRest
    /\ AllInit /\ scrapers = <<"olx_ba">>
    /\ ScoreIdle /\ frame_row = FrameRow(0, 0)
    /\ CrawlInit /\ ~supabase /\ listings_nekretnine = << >>
    /\ SyncInit /\ listings_olx = << >>
    /\ ExtractIdle
    /\ OlxInit

SpecMuni == InitMuni /\ [][NextMuni]_vars

\* clean_table on one table, everything else at rest
InitClean ==
    /\ CleanInit
    /\ SchedRest
    /\ MuniIdle /\ raw = None
    /\ AllInit /\ scrapers = <<"olx_ba">>
    /\ ScoreIdle /\ frame_row = FrameRow(0, 0)
    /\ CrawlInit /\ ~supabase /\ listings_nekretnine = << >>
    /\ SyncInit /\ listings_olx = << >>
    /\ ExtractIdle
    /\ OlxInit

SpecClean == InitClean /\ [][NextClean]_vars

\* the scheduler with the syncs it starts as steps of their own duration,
\* everything else at rest
InitSched ==
    /\ SchedInit
    /\ CleanIdle /\ table_rows = << >>
    /\ MuniIdle /\ raw = None
    /\ AllInit /\ scrapers = <<"olx_ba">>
    /\ ScoreIdle /\ frame_row = FrameRow(0, 0)
    /\ CrawlInit /\ ~supabase /\ listings_nekretnine = << >>
    /\ SyncInit /\ listings_olx = << >>
    /\ ExtractIdle
    /\ OlxInit

SpecSched == InitSched /\ [][NextSched]_vars

\* ------------------------------------------------------------------------
\* Properties of the crawl
\* ------------------------------------------------------------------------

\* C1: a URL that was in existing_urls when a page of this run discovered it
\* is, from then on, neither passed to parse_detail_page nor part of an
\* insert.
C1_DuplicateNeverExtractedOrInserted ==
    [][\A u \in Urls :
          (u \in seen_dup /\ runs' = runs) =>
             /\ parse_calls'[u] = parse_calls[u]
             /\ insert_calls'[u] = insert_calls[u]]_vars

\* a run has ended in which a page listed a URL of the index next to a new
\* one, the new one was extracted and the known one was not
C1_Witness ==
    /\ crawl_pc = "done"
    /\ \E u \in seen_dup : parse_calls[u] = 0 /\ insert_calls[u] = 0
    /\ \E u \in Urls : parse_calls[u] > 0

\* C2: within one run a URL is extracted at most once and at most one row is
\* inserted for it.
C2_OneListingPerUrl ==
    \A u \in Urls : parse_calls[u] <= 1 /\ insert_calls[u] <= 1

\* C3: existing_urls only grows, it contains the URL of every row right
\* after the insert of that row, and a URL inserted in this run is not
\* extracted again in the same run.
C3_IndexGrowsWithInserts ==
    [][/\ existing_urls \subseteq existing_urls'
       /\ \A i \in (Len(listings_nekretnine) + 1)..Len(listings_nekretnine') :
             listings_nekretnine'[i].url \in existing_urls'
       /\ \A u \in Urls :
             (runs' = runs /\ insert_calls[u] > 0) => parse_calls'[u] = parse_calls[u]
      ]_vars

\* a URL inserted on one page was discovered again, as a duplicate, on a
\* later page of the same run
C3_Witness ==
    \E u \in Urls : insert_calls[u] > 0 /\ u \in seen_dup /\ parse_calls[u] = 1

\* ------------------------------------------------------------------------
\* Properties of the sync
\* ------------------------------------------------------------------------
RowIds == 1..Len(listings_olx)

\* the history entry that a step appends, if it appends one
Appended == Len(price_history') = Len(price_history) + 1

\* C4: on the update path a price history entry is created if and only if
\* the written price differs from the stored one, for every pair of prices
\* (None and 0 included), and it carries the stored and the written price.
\* Steps in which a store call raised are left out.
C4_HistoryIffPriceDiffers ==
    [][/\ (sync_pc = "update" /\ listings_olx' # listings_olx /\ ~store_failed') =>
             LET id == Head(updated_listings).id IN
             (sync_pc' = "history") <=>
                (listings_olx'[id].price_numeric # listings_olx[id].price_numeric)
       /\ (sync_pc = "history" /\ ~store_failed') =>
             LET u == Head(updated_listings) IN
             price_history' = Append(price_history,
                                     [listing_id |-> u.id,
                                      old_price |-> old_price,
                                      new_price |-> listings_olx[u.id].price_numeric])
      ]_vars

\* C5 as claimed: the history entry is appended before the overwrite, so the
\* row still holds the old price when the entry is appended.
C5_HistoryBeforeOverwrite ==
    [][Appended =>
          LET e == price_history'[Len(price_history')] IN
          listings_olx[e.listing_id].price_numeric = e.old_price]_vars

\* C5 as amended: the old price is read before the write, the entry is
\* appended after the write of the row succeeded (the row already holds the
\* new price), and the entry carries the price read before the write.
C5_HistoryAfterOverwrite ==
    [][/\ (sync_pc = "update" /\ sync_pc' = "history") =>
             LET u == Head(updated_listings) IN
             /\ old_price' = listings_olx[u.id].price_numeric
             /\ listings_olx'[u.id].price_numeric = u.listing.price_numeric
             /\ old_price' # u.listing.price_numeric
             /\ price_history' = price_history
       /\ Appended =>
             LET e == price_history'[Len(price_history')] IN
             /\ sync_pc = "history"
             /\ e.old_price = old_price
             /\ e.new_price = listings_olx[e.listing_id].price_numeric
             /\ e.old_price # e.new_price
             /\ listings_olx' = listings_olx
      ]_vars

\* a price change 100 -> 200 has been written and then recorded
C5_Witness ==
    /\ price_history # << >>
    /\ LET e == price_history[Len(price_history)] IN
          /\ e.old_price = Some(100)
          /\ e.new_price = Some(200)
          /\ listings_olx[e.listing_id].price_numeric = Some(200)

\* C6: a row whose external_id is in the batch of the current run (it was
\* observed less than ExpiryDays ago) is not marked inactive.
C6_ObservedNotExpired ==
    [][\A i \in RowIds :
          (listings_olx[i].is_active /\ ~listings_olx'[i].is_active) =>
             listings_olx[i].external_id \notin scraped_ids]_vars

\* C7: an expiry leaves every inactive row as it is, counts exactly the rows
\* it turned inactive, turns only stale rows inactive, and no row is ever
\* counted twice.
C7_ExpiryIdempotent ==
    [][sync_pc = "expire" =>
          /\ Len(listings_olx') = Len(listings_olx)
          /\ \A i \in RowIds :
                /\ ~listings_olx[i].is_active => listings_olx'[i] = listings_olx[i]
                /\ listings_olx'[i].times_expired <= 1
                /\ (listings_olx[i].is_active /\ ~listings_olx'[i].is_active) =>
                      /\ listings_olx'[i].times_expired = 1
                      /\ listings_olx[i].scraped_at[1] < now - ExpiryDays
          /\ expired_count' = Cardinality({i \in RowIds :
                listings_olx[i].is_active /\ ~listings_olx'[i].is_active})
      ]_vars

\* the expiry has marked a stored row inactive in one run and, run again
\* against it, has counted nothing
C7_Witness ==
    /\ sync_pc = "idle"
    /\ expired_count = 0
    /\ \E i \in RowIds :
          /\ ~listings_olx[i].is_active
          /\ listings_olx[i].scraped_at = Some(0)
          /\ listings_olx[i].times_expired = 1

\* C8: no two rows of the table have the same external_id.
C8_ExternalIdUnique ==
    \A i, j \in RowIds :
       i # j => listings_olx[i].external_id # listings_olx[j].external_id

\* C9: no step turns is_active of an existing row from false to true.
C9_IsActiveMonotone ==
    [][\A i \in RowIds :
          ~listings_olx[i].is_active =>
             /\ i <= Len(listings_olx')
             /\ ~listings_olx'[i].is_active]_vars

\* an inactive listing was scraped again and inserted: its old row is still
\* inactive
C9_Witness ==
    \E i, j \in RowIds :
       /\ i < j
       /\ listings_olx[i].external_id = listings_olx[j].external_id
       /\ ~listings_olx[i].is_active
       /\ listings_olx[j].is_active
       /\ listings_olx[j].scraped_at = Some(now)

\* what C10 calls changed
Changed(l, row) ==
    \/ l.price_numeric # row.price_numeric
    \/ l.title # row.title
    \/ now - row.last_updated[1] > StaleDays

\* C10: the partition of a batch, when the stored rows could be read: a
\* listing that is not stored is new; a stored one is not new, and it is to
\* be updated exactly when it is changed.
C10_Partition ==
    (sync_pc \in {"insert", "update"} /\ scraped # << >> /\ ~store_failed) =>
       \A k \in 1..Len(scraped) :
          LET l == scraped[k]
              stored == {i \in RowIds : listings_olx[i].external_id = l.external_id}
              isNew == \E n \in 1..Len(new_listings) : new_listings[n] = l
              isUpd == \E n \in 1..Len(updated_listings) : updated_listings[n].listing = l
          IN /\ stored = {} => isNew
             /\ stored # {} =>
                   /\ ~isNew
                   /\ isUpd <=> \E i \in stored : Changed(l, listings_olx[i])
\* C20: a row of an update batch whose write raises or finds no row does not
\* end the batch: the next iteration is for the next row, and the count
\* keeps every row written so far.
C20_UpdateFailureIsPerRow ==
    [][UpdateWrite =>
          /\ \/ updated_listings' = Tail(updated_listings)
             \/ sync_pc' = "history" /\ updated_listings' = updated_listings
          /\ updated_count' >= updated_count
      ]_vars

\* ------------------------------------------------------------------------
\* Properties of the field extractor and the coordinate resolver
\* ------------------------------------------------------------------------
\* a pair that is (null, null) or inside the box
NullOrInBox(p) ==
    \/ p = NoCoords
    \/ /\ p[1] # None
       /\ p[2] # None
       /\ InBox(p[1][1], p[2][1])

\* C11: the pair the resolver or the geocoder returned, the pair of the
\* listing and the pair written to a table are each (null, null) or inside
\* the box.
C11_CoordinatesNullOrInBox ==
    /\ NullOrInBox(coords)
    /\ parsed.kind = "listing" =>
          NullOrInBox(<<parsed.details.latitude, parsed.details.longitude>>)
    /\ ext_pc = "stored" => NullOrInBox(stored_coords)

\* the coordinates strategies 1-2 are taken to have found: the fallback does
\* not replace them
Found(p) == p[1] # None /\ p[1] # Some(0)

\* C12: with a geocoder configured parse_detail_page returns a listing
\* whenever it returns one without a geocoder; the coordinates found by
\* strategies 1-2 are unchanged, and are otherwise (null, null) or inside the
\* box.
C12_GeocoderDoesNotAffectOutcome ==
    (parsed # NotParsed /\ gmaps) =>
       LET without == ParseDetailPage(doc, FALSE) IN
       without.kind = "listing" =>
          /\ parsed.kind = "listing"
          /\ LET p == <<parsed.details.latitude, parsed.details.longitude>>
                 q == <<without.details.latitude, without.details.longitude>>
             IN IF Found(q) THEN p = q ELSE NullOrInBox(p)

\* C13: when the document has a marker with a tile index and a script call
\* with another pair, the resolver returns the pair of the tile; it returns
\* the pair of the script only when the tile strategy yields nothing.
C13_TileBeforeScript ==
    (parsed # NotParsed /\ doc.fetched) =>
       LET tileYields == HasTile(doc) /\ ~TileMathRaises(doc.tile[1]) IN
       /\ (tileYields /\ doc.script # None) => coords = TileCoords(doc.tile[1])
       /\ (doc.script # None /\ coords = doc.script[1]) => ~tileYields

\* a document with both strategies satisfied and conflicting values has been
\* resolved to the pair of the tile
C13_Witness ==
    /\ parsed # NotParsed
    /\ doc.fetched
    /\ HasTile(doc)
    /\ ~TileMathRaises(doc.tile[1])
    /\ doc.script # None
    /\ doc.script[1] # TileCoords(doc.tile[1])
    /\ coords = TileCoords(doc.tile[1])

\* C18: a fetched document is skipped exactly when title and price are both
\* missing; otherwise the record carries the title and the price found, null
\* for the missing one (stated for a scraper without a geocoder).
C18_SkipIffTitleAndPriceMissing ==
    (parsed # NotParsed /\ doc.fetched /\ ~gmaps) =>
       /\ parsed.kind = "skip" <=> (doc.title = None /\ doc.price_numeric = None)
       /\ parsed.kind = "listing" =>
             /\ parsed.details.title = doc.title
             /\ parsed.details.price_numeric = doc.price_numeric
\* ------------------------------------------------------------------------
\* Properties of the crawl controllers
\* ------------------------------------------------------------------------

\* C14: when scrape_listings of OLXScraper has finished, the driver field is
\* None and a browser session it opened has been quit.
C14_SessionTornDown ==
    olx_pc = "done" =>
       /\ olx_driver = "none"
       /\ olx_opened > 0 => olx_quit > 0

\* C15: after a search page p < max_pages that could not be fetched, the
\* controller requests page p + 1.
C15_PageFailureAdvances ==
    [][/\ (ScrapePage /\ search' = "failed" /\ page < MaxPages) =>
             (crawl_pc' = "page" /\ page' = page + 1)
       /\ (OlxScrapePage /\ olx_search' = "failed" /\ olx_page < MaxPages) =>
             (olx_pc' = "page" /\ olx_page' = olx_page + 1)
      ]_vars

\* the steps left to a run of NekretnineScraper, at most: MaxLinks + 2 for
\* every page not yet requested, and for the current page its URLs and the
\* save
CrawlMeasure ==
    CASE crawl_pc \in {"idle", "done"} -> 0
      [] crawl_pc = "page" -> (MaxPages + 1 - page) * (MaxLinks + 2)
      [] OTHER -> (MaxPages - page) * (MaxLinks + 2) + Len(new_urls) + 1

\* the same for OLXScraper
OlxMeasure ==
    CASE olx_pc \in {"idle", "done"} -> 0
      [] olx_pc = "page" -> (MaxPages + 1 - olx_page) * (MaxLinks + 2)
      [] OTHER -> (MaxPages - olx_page) * (MaxLinks + 2) + Len(olx_links)

\* C16: a crawl requests the search pages 1, 2, ... in order and never more
\* than max_pages of them, it ends at the first page that yields zero links,
\* a page of duplicates does not end it, and it terminates: every step of a
\* run lowers a measure that is never negative.
C16_CrawlTerminates ==
    [][/\ ScrapePage =>
             /\ 1 <= page /\ page <= MaxPages
             /\ search' = "empty" => crawl_pc' = "done"
             /\ (search' = "links" /\ new_urls' = << >>) =>
                   /\ page' = page + 1
                   /\ crawl_pc' = IF page < MaxPages THEN "page" ELSE "done"
       /\ OlxScrapePage =>
             /\ 1 <= olx_page /\ olx_page <= MaxPages
             /\ olx_search' = "empty" => olx_pc' = "done"
       /\ (runs' = runs /\ crawl_pc # "idle") =>
             /\ page' \in {page, page + 1}
             /\ CrawlMeasure' >= 0
             /\ crawl_pc # crawl_pc' \/ page # page' \/ new_urls # new_urls' =>
                   CrawlMeasure' < CrawlMeasure
       /\ (olx_runs' = olx_runs /\ olx_pc # "idle") =>
             /\ olx_page' \in {olx_page, olx_page + 1}
             /\ OlxMeasure' >= 0
             /\ olx_pc # olx_pc' \/ olx_page # olx_page' \/ olx_links # olx_links' =>
                   OlxMeasure' < OlxMeasure
      ]_vars

\* a crawl went past a page of duplicates and ended at a page without links
C16_Witness ==
    /\ crawl_pc = "done"
    /\ search = "empty"
    /\ page = 2
    /\ seen_dup # {}

\* C17: parse_detail_page returns a listing or None and never raises; after
\* a listing that failed, the listings already extracted are kept and the
\* remaining URLs of the page are still processed.
C17_DetailFailureIsolated ==
    [][/\ ParseDetail =>
             /\ new_urls' = Tail(new_urls)
             /\ all_listings' = all_listings
             /\ \/ page_listings' = page_listings
                \/ page_listings' = Append(page_listings, [url |-> Head(new_urls)])
             /\ crawl_pc' = IF new_urls' = << >> THEN "save" ELSE "detail"
       /\ (OlxParseDetail /\ olx_exit' # "raise") =>
             /\ olx_all_listings' >= olx_all_listings
             /\ Tail(olx_links) # << >> =>
                   (olx_pc' = "detail" /\ olx_links' = Tail(olx_links))
       /\ ParseKinds \subseteq {"listing", "skip"}
       /\ OlxParseKinds \subseteq {"listing", "skip"}
      ]_vars

\* the first listing of a page failed, the second one was extracted, and the
\* page was saved
C17_Witness ==
    /\ crawl_pc \in {"page", "done"}
    /\ \E u, v \in Urls :
          /\ u # v
          /\ parse_calls[u] = 1 /\ insert_calls[u] = 0
          /\ parse_calls[v] = 1 /\ insert_calls[v] = 1
          /\ all_listings = <<[url |-> v]>>

\* C19: a random delay runs between any two successive page loads of a
\* crawl.
C19_DelayBetweenRequests ==
    [][/\ (ScrapePage \/ ParseDetail) => paced
       /\ (OlxScrapePage \/ OlxParseDetail) => olx_paced
      ]_vars

\* C22: when scrape_listings of NekretnineScraper has returned, its result
\* reports the counts found, new, duplicate and saved of the run.
C22_RunReportsCounts ==
    crawl_pc = "done" =>
       {"total_found", "new_count", "duplicate_count", "saved_count"}
          \subseteq DOMAIN returned

\* ------------------------------------------------------------------------
\* Properties of sync_all_sources
\* ------------------------------------------------------------------------
\* C21: when sync_all_sources has returned, _sync_source was called for
\* every configured source whichever of them raised, the expiry step ran
\* once, after the loop, and every source is counted once: a failed one in
\* total_errors, any other in sources_synced.
C21_SourceFailureIsolated ==
    /\ all_pc = "done" =>
          /\ attempted = Range(scrapers)
          /\ expiry_runs = 1
          /\ total_stats.total_errors = Cardinality(failed_sources)
          /\ total_stats.sources_synced + total_stats.total_errors = Len(scrapers)
    /\ all_pc = "source" => expiry_runs = 0

\* a run over two sources in which the first one raised and the second one
\* was synced
C21_Witness ==
    /\ all_pc = "done"
    /\ Len(scrapers) = 2
    /\ failed_sources = {scrapers[1]}
    /\ attempted = Range(scrapers)
    /\ total_stats.sources_synced = 1
    /\ expiry_runs = 1

\* ------------------------------------------------------------------------
\* Properties of the deal score
\* ------------------------------------------------------------------------
\* C23: for a predicted price > 0 the score is 95 when
\* (price - predicted) / predicted < -0.20, else 85 when it is < -0.10, else
\* 70 when it is < 0, else 40; the ratios -0.20, -0.10 and 0 themselves give
\* 85, 70 and 40.
C23_DealScoreBuckets ==
    (score_pc = "done" /\ frame_row.predicted_price > 0) =>
       LET price == frame_row.price_numeric
           predicted == frame_row.predicted_price
           diff == price - predicted
       IN /\ score = IF 100 * diff < (0 - 20) * predicted THEN 95
                     ELSE IF 100 * diff < (0 - 10) * predicted THEN 85
                     ELSE IF diff < 0 THEN 70
                     ELSE 40
          /\ (price = 80000 /\ predicted = 100000) => score = 85
          /\ (price = 90000 /\ predicted = 100000) => score = 70
          /\ price = predicted => score = 40

\* the row with price 80000 and predicted price 100000 was scored 85
C23_Witness ==
    /\ score_pc = "done"
    /\ frame_row.price_numeric = 80000
    /\ frame_row.predicted_price = 100000
    /\ score = 85

\* C24: the score is 0 whenever the predicted price is not greater than 0,
\* and it is always one of 0, 40, 70, 85, 95.
C24_ZeroWhenNoPrediction ==
    score_pc = "done" =>
       /\ frame_row.predicted_price <= 0 => score = 0
       /\ score \in {0, 40, 70, 85, 95}

\* C25: an update that writes a new price into a stored row leaves the row
\* with the deal score of the new price and the row's predicted price.
C25_DealScoreFollowsPrice ==
    [][\A i \in RowIds :
          (/\ UpdateWrite
           /\ listings_olx'[i].price_numeric # listings_olx[i].price_numeric
           /\ listings_olx'[i].price_numeric # None
           /\ listings_olx[i].predicted_price # None) =>
             listings_olx'[i].deal_score =
                Some(DealScore(FrameRow(listings_olx'[i].price_numeric[1],
                                        listings_olx[i].predicted_price[1])))
      ]_vars

\* ------------------------------------------------------------------------
\* Properties of the municipality normalizer
\* ------------------------------------------------------------------------
\* the rules of PATTERN_MAP that match a string
Matching(text) ==
    {i \in 1..Len(PATTERN_MAP) : Search(PATTERN_MAP[i].pattern, text)}

\* C26: map_municipality returns the canonical name the input equals when
\* case and surrounding blanks are ignored, otherwise the target of the
\* first rule that matches, otherwise null; a result is a canonical name,
\* and the normalizer maps it to itself.
C26_FirstMatchWins ==
    /\ (muni_pc \in {"mapped", "remapped"} /\ NonEmpty(raw)) =>
          LET text == raw[1] IN
          /\ \A c \in CANONICAL :
                (text.words = <<c>>) => mapped = Some(c)
          /\ (Len(text.words) # 1 \/ text.words[1] \notin CANONICAL) =>
                IF Matching(text) = {} THEN mapped = None
                ELSE \E i \in Matching(text) :
                        /\ \A j \in Matching(text) : i <= j
                        /\ mapped = Some(PATTERN_MAP[i].target)
          /\ mapped # None => mapped[1] \in CANONICAL
          /\ (text.words = <<"Ilidza">>) => mapped = Some("Ilidza")
          /\ (text.words = <<"Grbavica">>) => mapped = Some("Sarajevo - Novo Sarajevo")
    /\ (muni_pc \in {"mapped", "remapped"} /\ ~NonEmpty(raw)) => mapped = None
    /\ muni_pc = "remapped" => remapped = mapped

\* a string with words of two rules was mapped to the target of the earlier
\* rule, and the result was mapped to itself
C26_Witness ==
    /\ muni_pc = "remapped"
    /\ raw[1].words = <<"Ilidza", "Centar">>
    /\ raw[1].casing = "upper"
    /\ mapped = Some("Sarajevo - Centar")
    /\ remapped = mapped

\* C27: the municipality of a record built by live ingestion is null or a
\* name of the canonical taxonomy.
C27_LiveMunicipalityCanonicalOrNull ==
    muni_pc = "live" =>
       \/ municipality = None
       \/ \E c \in CANONICAL : municipality = Some(CanonicalText(c))

\* ------------------------------------------------------------------------
\* Properties of clean_table
\* ------------------------------------------------------------------------
\* the municipality is a canonical name in its registered spelling
HasCanonicalMunicipality(r) ==
    \E c \in CANONICAL : r.municipality = Some(CanonicalText(c))

Unmapped(t) ==
    Cardinality({i \in 1..Len(t) : MapMunicipality(t[i].municipality) = None})

Rewritten(t) ==
    Cardinality({i \in 1..Len(t) :
                    /\ MapMunicipality(t[i].municipality) # None
                    /\ Some(CanonicalText(MapMunicipality(t[i].municipality)[1]))
                          # t[i].municipality})

\* C29: without apply_changes clean_table issues no update and no delete
\* and leaves the table as it was; with or without apply_changes it returns
\* the same counts for the same table, and updated + dropped <= total.
C29_DryRunIsInert ==
    /\ (clean_pc \in {"loop", "done"} /\ ~apply_changes) =>
          /\ store_writes = 0
          /\ table_rows = table_at_start
    /\ clean_pc = "done" =>
          /\ updated = Rewritten(table_at_start)
          /\ dropped = Unmapped(table_at_start)
          /\ total = Len(table_at_start)
          /\ updated + dropped <= total

\* a dry run over a table with a row to drop and a row to rewrite has
\* returned
C29_Witness ==
    /\ clean_pc = "done"
    /\ ~apply_changes
    /\ updated = 1
    /\ dropped = 1
    /\ total = 2
    /\ table_rows = table_at_start

\* ------------------------------------------------------------------------
\* Properties of the scheduler
\* ------------------------------------------------------------------------

\* C30: an iteration of run_forever starts at most one sync; the first
\* iteration starts a full sync; a full sync starts exactly when
\* full_sync_interval has elapsed since the start of the previous full sync
\* (or there was none); an incremental sync starts only when no full sync is
\* due and incremental_sync_interval has elapsed since the start of the most
\* recent sync of either kind.
C30_OneSyncPerTickFullFirst ==
    [][(sched_pc = "loop" /\ ticks' = ticks + 1) =>
        LET t == current_time'
            fullElapsed ==
                \/ full_started_at = None
                \/ t - full_started_at[1] >= full_sync_interval
            syncElapsed ==
                /\ sync_started_at # None
                /\ t - sync_started_at[1] >= incremental_sync_interval
        IN
        /\ Len(started') <= 1
        /\ (ticks = 0 => started' = <<"full">>)
        /\ (started' = <<"full">> <=> fullElapsed)
        /\ (started' = <<"incremental">> => ~fullElapsed /\ syncElapsed)
    ]_vars

\* two full syncs with an incremental sync between them
C30_Witness ==
    /\ sched_pc = "loop"
    /\ full_syncs = 2
    /\ incremental_syncs >= 1
    /\ started = <<"full">>

====

